---- MODULE Spec2Model ----
(***************************************************************************)
(* Model of the London_Events ingestion pipeline:                          *)
(*   app/services/event_aggregator.py  (EventAggregator)                   *)
(*   app/services/sellout_detector.py  (SelloutDetector)                   *)
(*   app/models/database.py            (Event, DataSource)                 *)
(*                                                                         *)
(* Encodings.  A Python Optional is a sequence of length 0 or 1: None is   *)
(* <<>> and a value v is <<v>>.  Titles and venue names are sequences of   *)
(* one-character strings, other strings are TLA+ strings, datetimes are    *)
(* integers (days), a float that is a quotient is a pair <<num, den>>.     *)
(***************************************************************************)
EXTENDS Integers, Sequences, FiniteSets, TLC

None == <<>>

Some(v) == <<v>>

\* Python truthiness of an Optional[int] / Optional[float]: None and 0 are falsy
TruthyNum(o) == o # None /\ o[1] # 0

\* Python truthiness of an Optional[str] held as a TLA+ string
TruthyStr(o) == o # None /\ o[1] # ""

\* Python truthiness of an Optional[str] held as a character sequence
TruthySeq(o) == o # None /\ o[1] # <<>>

\* Python "a or b" for each of the four kinds of value (every datetime is
\* truthy, so a date is falsy only when it is None)
OrNum(a, b) == IF TruthyNum(a) THEN a ELSE b

OrStr(a, b) == IF TruthyStr(a) THEN a ELSE b

OrSeq(a, b) == IF TruthySeq(a) THEN a ELSE b

OrDate(a, b) == IF a # None THEN a ELSE b

(***************************************************************************)
(* str.lower() on ASCII letters.                                           *)
(***************************************************************************)
LowerTable ==
    "A" :> "a" @@ "B" :> "b" @@ "C" :> "c" @@ "D" :> "d" @@ "E" :> "e"
    @@ "F" :> "f" @@ "G" :> "g" @@ "H" :> "h" @@ "I" :> "i" @@ "J" :> "j"
    @@ "K" :> "k" @@ "L" :> "l" @@ "M" :> "m" @@ "N" :> "n" @@ "O" :> "o"
    @@ "P" :> "p" @@ "Q" :> "q" @@ "R" :> "r" @@ "S" :> "s" @@ "T" :> "t"
    @@ "U" :> "u" @@ "V" :> "v" @@ "W" :> "w" @@ "X" :> "x" @@ "Y" :> "y"
    @@ "Z" :> "z"

LowerChar(c) == IF c \in DOMAIN LowerTable THEN LowerTable[c] ELSE c

lower(s) == [i \in 1..Len(s) |-> LowerChar(s[i])]

(***************************************************************************)
(* difflib.SequenceMatcher(None, a, b).ratio(), as _similarity calls it.   *)
(* No junk predicate; the autojunk heuristic only applies to sequences of  *)
(* 200 or more elements, which the model's strings never reach.            *)
(***************************************************************************)
RECURSIVE RunLen(_, _, _, _, _, _)
\* length of the common run of a[i..ahi] and b[j..bhi] that starts at i, j
RunLen(a, b, i, j, ahi, bhi) ==
    IF i > ahi \/ j > bhi THEN 0
    ELSE IF a[i] # b[j] THEN 0
    ELSE 1 + RunLen(a, b, i + 1, j + 1, ahi, bhi)

\* find_longest_match: the longest block, earliest in a, then earliest in b.
\* A longest block starts where a common run starts, so only those cells
\* are measured.
find_longest_match(a, b, alo, ahi, blo, bhi) ==
    LET starts == {p \in (alo..ahi) \X (blo..bhi) :
                      /\ a[p[1]] = b[p[2]]
                      /\ \/ p[1] = alo
                         \/ p[2] = blo
                         \/ a[p[1] - 1] # b[p[2] - 1]}
        blocks == {<<p[1], p[2], RunLen(a, b, p[1], p[2], ahi, bhi)>> : p \in starts}
        best == CHOOSE m \in blocks :
                    \A n \in blocks :
                        \/ m[3] > n[3]
                        \/ m[3] = n[3] /\ m[1] < n[1]
                        \/ m[3] = n[3] /\ m[1] = n[1] /\ m[2] <= n[2]
    IN  IF starts = {} THEN <<alo, blo, 0>> ELSE best

RECURSIVE MatchTotal(_, _, _, _, _, _)
\* get_matching_blocks: sum of the sizes of the blocks found recursively
MatchTotal(a, b, alo, ahi, blo, bhi) ==
    IF alo > ahi \/ blo > bhi THEN 0
    ELSE LET m == find_longest_match(a, b, alo, ahi, blo, bhi)
         IN  IF m[3] = 0 THEN 0
             ELSE m[3]
                  + MatchTotal(a, b, alo, m[1] - 1, blo, m[2] - 1)
                  + MatchTotal(a, b, m[1] + m[3], ahi, m[2] + m[3], bhi)

\* ratio() = 2.0 * matches / (len(a) + len(b)), 1.0 when both are empty
ratio(a, b) ==
    IF Len(a) + Len(b) = 0 THEN <<1, 1>>
    ELSE <<2 * MatchTotal(a, b, 1, Len(a), 1, Len(b)), Len(a) + Len(b)>>

\* q > n/d for a quotient q = <<num, den>> with den > 0 and d > 0
QuotGT(q, n, d) == q[1] * d > n * q[2]

(***************************************************************************)
(* SelloutDetector (app/services/sellout_detector.py).                     *)
(***************************************************************************)
UPCOMING == "upcoming"

ON_SALE == "on_sale"

SELLING_FAST == "selling_fast"

SOLD_OUT == "sold_out"

CANCELLED == "cancelled"

EventStatus == {UPCOMING, ON_SALE, SELLING_FAST, SOLD_OUT, CANCELLED}

\* settings.sellout_threshold_percentage
sellout_threshold == 10

\* settings.low_availability_threshold
low_availability_threshold == 50

SoldOutSpellings == {"soldout", "sold_out", "sold-out"}

CancelledSpellings == {"cancelled", "canceled"}

OnSaleSpellings == {"onsale", "on_sale"}

PresaleSpellings == {"presale", "pre_sale"}

OffSaleSpellings == {"offsale", "off_sale"}

(***************************************************************************)
(* Python floats (IEEE 754 binary64) for the quotients of                  *)
(* _is_selling_fast_by_rate.  A positive float is [m, e] with value        *)
(* m * 2^e and 2^52 <= m < 2^53; m is kept as four limbs of 15 bits,       *)
(* least significant first.  The values the model divides are far from     *)
(* the exponent limits, so there are no subnormals, overflows or           *)
(* underflows.                                                             *)
(***************************************************************************)
Limb == 32768

BigOfInt(n) == <<n % Limb, (n \div Limb) % Limb, n \div (Limb * Limb), 0>>

BigDouble(x) ==
    LET d1 == 2 * x[1]
        d2 == 2 * x[2] + d1 \div Limb
        d3 == 2 * x[3] + d2 \div Limb
        d4 == 2 * x[4] + d3 \div Limb
    IN  <<d1 % Limb, d2 % Limb, d3 % Limb, d4>>

BigGE(x, y) ==
    IF x[4] # y[4] THEN x[4] > y[4]
    ELSE IF x[3] # y[3] THEN x[3] > y[3]
    ELSE IF x[2] # y[2] THEN x[2] > y[2]
    ELSE x[1] >= y[1]

\* x - y for x >= y
BigSub(x, y) ==
    LET d1 == x[1] - y[1]
        b1 == IF d1 < 0 THEN 1 ELSE 0
        d2 == x[2] - y[2] - b1
        b2 == IF d2 < 0 THEN 1 ELSE 0
        d3 == x[3] - y[3] - b2
        b3 == IF d3 < 0 THEN 1 ELSE 0
    IN  <<d1 + b1 * Limb, d2 + b2 * Limb, d3 + b3 * Limb, x[4] - y[4] - b3>>

\* 2 * x + bit
BigShiftIn(x, bit) == [BigDouble(x) EXCEPT ![1] = @ + bit]

BigInc(x) ==
    LET d1 == x[1] + 1
        d2 == x[2] + d1 \div Limb
        d3 == x[3] + d2 \div Limb
    IN  <<d1 % Limb, d2 % Limb, d3 % Limb, x[4] + d3 \div Limb>>

\* the top limb of 2^52 and of 2^53
TopLimb52 == 128

TopLimb53 == 256

RECURSIVE FloatNormalize(_, _)
\* m * 2^e with m > 0 brought to 2^52 <= m < 2^53, a limb at a time while
\* that fits and then a bit at a time
FloatNormalize(m, e) ==
    IF m[4] >= TopLimb52 THEN [m |-> m, e |-> e]
    ELSE IF m[4] = 0 /\ m[3] < TopLimb52
    THEN FloatNormalize(<<0, m[1], m[2], m[3]>>, e - 15)
    ELSE FloatNormalize(BigDouble(m), e - 1)

\* float(n) for an int n > 0
FloatOfInt(n) == FloatNormalize(BigOfInt(n), 0)

RECURSIVE FloatDivBits(_, _, _, _)
\* long division: the quotient bits left to produce, the quotient so far,
\* the running remainder and the divisor; returns <<quotient, 2 * remainder>>
FloatDivBits(n, q, r, d) ==
    IF n = 0 THEN <<q, r>>
    ELSE IF BigGE(r, d)
    THEN FloatDivBits(n - 1, BigShiftIn(q, 1), BigDouble(BigSub(r, d)), d)
    ELSE FloatDivBits(n - 1, BigShiftIn(q, 0), BigDouble(r), d)

RECURSIVE FloatDivChunks(_, _, _)
\* FloatDivBits over n bits, eight at a time
FloatDivChunks(n, qr, d) ==
    IF n = 0 THEN qr
    ELSE LET k == IF n >= 8 THEN 8 ELSE n
         IN  FloatDivChunks(n - k, FloatDivBits(k, qr[1], qr[2], d), d)

\* x / y for positive floats, rounded to nearest, ties to even
FloatDiv(x, y) ==
    LET ge == BigGE(x.m, y.m)
        e0 == IF ge THEN x.e - y.e - 52 ELSE x.e - y.e - 53
        qr == FloatDivChunks(53, <<<<0, 0, 0, 0>>,
                                   IF ge THEN x.m ELSE BigDouble(x.m)>>, y.m)
        q == qr[1]
        up == IF qr[2] = y.m THEN q[1] % 2 = 1 ELSE BigGE(qr[2], y.m)
        q1 == IF up THEN BigInc(q) ELSE q
    IN  IF q1[4] = TopLimb53
        THEN [m |-> <<0, 0, 0, TopLimb52>>, e |-> e0 + 1]
        ELSE [m |-> q1, e |-> e0]

\* x * 0.5
FloatHalf(x) == [x EXCEPT !.e = @ - 1]

\* x <= y and x < y for positive floats
FloatLE(x, y) == x.e < y.e \/ (x.e = y.e /\ BigGE(y.m, x.m))

FloatLT(x, y) == x.e < y.e \/ (x.e = y.e /\ ~BigGE(x.m, y.m))

Abs(n) == IF n < 0 THEN -n ELSE n

(***************************************************************************)
(* _is_selling_fast_by_rate.  The two timedeltas are whole days, so        *)
(* days_since_check is float(time_since_check) and days_until_event is     *)
(* float(time_until_event), both exact.  tickets_per_day has the sign of   *)
(* tickets_sold * time_since_check.                                        *)
(***************************************************************************)
is_selling_fast_by_rate(current_available, previous_available, time_since_check, time_until_event) ==
    LET tickets_sold == previous_available - current_available
    IN  IF time_since_check = 0 THEN FALSE
        ELSE IF time_until_event <= 0 THEN FALSE
        ELSE IF tickets_sold * time_since_check > 0
             THEN IF current_available <= 0 THEN TRUE
                  ELSE LET tickets_per_day ==
                               FloatDiv(FloatOfInt(Abs(tickets_sold)),
                                        FloatOfInt(Abs(time_since_check)))
                           days_to_sellout ==
                               FloatDiv(FloatOfInt(current_available),
                                        tickets_per_day)
                       IN  \/ FloatLE(days_to_sellout, FloatOfInt(7))
                           \/ FloatLT(days_to_sellout,
                                      FloatHalf(FloatOfInt(time_until_event)))
             ELSE FALSE

\* is_sold_out without the tickets_available == 0 test
is_sold_out_by_status_only(tickets_available, on_sale_status) ==
    TruthyStr(on_sale_status) /\ on_sale_status[1] \in SoldOutSpellings

\* determine_status, first test: no tickets left or a sold-out spelling
is_sold_out(tickets_available, on_sale_status) ==
    \/ tickets_available = Some(0)
    \/ (TruthyStr(on_sale_status) /\ on_sale_status[1] \in SoldOutSpellings)

\* determine_status, second test: a cancellation spelling
is_cancelled(on_sale_status) ==
    TruthyStr(on_sale_status) /\ on_sale_status[1] \in CancelledSpellings

\* the third test with < in place of <=
is_low_availability_strict(tickets_available, total_tickets) ==
    /\ tickets_available # None
    /\ total_tickets # None
    /\ total_tickets[1] > 0
    /\ \/ tickets_available[1] * 100 < sellout_threshold * total_tickets[1]
       \/ tickets_available[1] < low_availability_threshold

\* determine_status, third test: both counts known, total > 0, and the
\* percentage (available / total) * 100 or the count at or below its threshold
is_low_availability(tickets_available, total_tickets) ==
    /\ tickets_available # None
    /\ total_tickets # None
    /\ total_tickets[1] > 0
    /\ \/ tickets_available[1] * 100 <= sellout_threshold * total_tickets[1]
       \/ tickets_available[1] <= low_availability_threshold

\* determine_status, fourth test: the rate of sales since the last check
is_selling_by_rate(tickets_available, previous_availability, last_check, event_date, now) ==
    /\ previous_availability # None
    /\ tickets_available # None
    /\ last_check # None
    /\ event_date # None
    /\ is_selling_fast_by_rate(tickets_available[1], previous_availability[1],
                               now - last_check[1], event_date[1] - now)

\* the last test with the presale spellings left to the default
status_of_sale_string_no_presale(on_sale_status) ==
    IF TruthyStr(on_sale_status) /\ on_sale_status[1] \in OnSaleSpellings
    THEN ON_SALE
    ELSE UPCOMING

\* determine_status, last test: the status the sale-status string maps to
status_of_sale_string(on_sale_status) ==
    IF TruthyStr(on_sale_status) /\ on_sale_status[1] \in OnSaleSpellings
    THEN ON_SALE
    ELSE IF TruthyStr(on_sale_status) /\ on_sale_status[1] \in PresaleSpellings
    THEN ON_SALE
    ELSE IF TruthyStr(on_sale_status) /\ on_sale_status[1] \in OffSaleSpellings
    THEN UPCOMING
    ELSE UPCOMING

\* determine_status; now stands for datetime.utcnow()
determine_status(tickets_available, total_tickets, on_sale_status, previous_availability, last_check, event_date, now) ==
    IF is_sold_out(tickets_available, on_sale_status) THEN SOLD_OUT
    ELSE IF is_cancelled(on_sale_status) THEN CANCELLED
    ELSE IF is_low_availability(tickets_available, total_tickets)
    THEN SELLING_FAST
    ELSE IF is_selling_by_rate(tickets_available, previous_availability,
                               last_check, event_date, now)
    THEN SELLING_FAST
    ELSE status_of_sale_string(on_sale_status)

\* _calculate_availability_percentage answering 0.0 when no ticket is left
calculate_availability_percentage_zero(tickets_available, total_tickets) ==
    IF tickets_available = None \/ ~TruthyNum(total_tickets) THEN None
    ELSE Some(<<tickets_available[1] * 100, total_tickets[1]>>)

\* _calculate_availability_percentage: None, or (available / total) * 100
calculate_availability_percentage(tickets_available, total_tickets) ==
    IF ~TruthyNum(tickets_available) \/ ~TruthyNum(total_tickets) THEN None
    ELSE Some(<<tickets_available[1] * 100, total_tickets[1]>>)

(***************************************************************************)
(* EventData records and Event rows.  An Event row carries the EventData   *)
(* fields the aggregator copies and later reads or overwrites, plus        *)
(* status, availability_percentage and last_availability_check.  Columns   *)
(* the aggregator writes and never reads (slug, latitude, longitude,       *)
(* currency, source_url, images, raw_data, updated_at) are left out.       *)
(***************************************************************************)
\* the titles the adapters give the one show the pipeline model lists
TitleA == <<"J", "a", "z", "z">>

TitleB == <<"j", "a", "z", "z", "y">>

\* titles and venue names at the thresholds of _find_duplicate: Title17 against
\* Title23 has ratio 34/40 = 0.85 and against Title22 34/39; VenueAbcd
\* against VenueAbcx has ratio 6/8 = 0.75 and against VenueAbcde 8/9
Title17 == <<"a", "b", "c", "d", "e", "f", "g", "h", "i", "j", "k", "l", "m", "n", "o", "p", "q">>

Title17Upper == <<"A", "B", "C", "D", "E", "F", "G", "H", "i", "j", "k", "l", "m", "n", "o", "p", "q">>

Title22 == <<"a", "b", "c", "d", "e", "f", "g", "h", "i", "j", "k", "l", "m", "n", "o", "p", "q", "r", "s", "t", "u", "v">>

Title23 == <<"a", "b", "c", "d", "e", "f", "g", "h", "i", "j", "k", "l", "m", "n", "o", "p", "q", "r", "s", "t", "u", "v", "w">>

TitleOther == <<"z", "z", "z">>

VenueAbcd == <<"a", "b", "c", "d">>

VenueAbcx == <<"a", "b", "c", "x">>

VenueAbcde == <<"a", "b", "c", "d", "e">>

\* EventAggregator._similarity
similarity(a, b) == ratio(a, b)

\* a provenance lookup that finds nothing
find_by_source_none(rows, source_name, source_id) == 0

\* the first row of the table with the provenance, 0 when there is none
\* (the query of _process_events, .first())
find_by_source(rows, source_name, source_id) ==
    LET hits == {i \in 1..Len(rows) :
                     /\ rows[i].source_name = source_name
                     /\ rows[i].source_id = source_id}
    IN  IF hits = {} THEN 0 ELSE CHOOSE i \in hits : \A j \in hits : i <= j

\* the test of _find_duplicate with >= in place of >
is_duplicate_of_ge(event_data, existing) ==
    LET title_similarity ==
            similarity(lower(event_data.title[1]), lower(existing.title[1]))
        venue_similarity ==
            IF TruthySeq(event_data.venue_name) /\ TruthySeq(existing.venue_name)
            THEN similarity(lower(event_data.venue_name[1]),
                            lower(existing.venue_name[1]))
            ELSE <<1, 1>>
    IN  ~QuotGT(<<85, 100>>, title_similarity[1], title_similarity[2])
        /\ ~QuotGT(<<75, 100>>, venue_similarity[1], venue_similarity[2])

\* the test _find_duplicate applies to one candidate row
is_duplicate_of(event_data, existing) ==
    LET title_similarity ==
            similarity(lower(event_data.title[1]), lower(existing.title[1]))
        venue_similarity ==
            IF TruthySeq(event_data.venue_name) /\ TruthySeq(existing.venue_name)
            THEN similarity(lower(event_data.venue_name[1]),
                            lower(existing.venue_name[1]))
            ELSE <<1, 1>>
    IN  QuotGT(title_similarity, 85, 100) /\ QuotGT(venue_similarity, 75, 100)

\* _find_duplicate without the start_date filter of its query
find_duplicate_any_date(rows, event_data) ==
    LET hits == {i \in 1..Len(rows) : is_duplicate_of(event_data, rows[i])}
    IN  IF hits = {} THEN 0 ELSE CHOOSE i \in hits : \A j \in hits : i <= j

\* _find_duplicate: the first row on the same start_date that passes the
\* test, 0 (None) when there is none
find_duplicate(rows, event_data) ==
    LET same_date_events == {i \in 1..Len(rows) :
                                 rows[i].start_date = event_data.start_date}
        hits == {i \in same_date_events : is_duplicate_of(event_data, rows[i])}
    IN  IF hits = {} THEN 0 ELSE CHOOSE i \in hits : \A j \in hits : i <= j

\* _create_event: the row built from a record
create_event(event_data, now) ==
    [title |-> event_data.title,
     description |-> event_data.description,
     start_date |-> event_data.start_date,
     end_date |-> event_data.end_date,
     venue_name |-> event_data.venue_name,
     venue_address |-> event_data.venue_address,
     ticket_url |-> event_data.ticket_url,
     price_min |-> event_data.price_min,
     price_max |-> event_data.price_max,
     on_sale_date |-> event_data.on_sale_date,
     on_sale_status |-> event_data.on_sale_status,
     status |-> determine_status(event_data.tickets_available,
                                 event_data.total_tickets,
                                 event_data.on_sale_status,
                                 None, None, None, now),
     tickets_available |-> event_data.tickets_available,
     total_tickets |-> event_data.total_tickets,
     availability_percentage |->
         calculate_availability_percentage(event_data.tickets_available,
                                           event_data.total_tickets),
     last_availability_check |-> Some(now),
     source_name |-> event_data.source_name,
     source_id |-> event_data.source_id,
     image_url |-> event_data.image_url]

\* update_required with end_date assigned like the optional fields
update_required_keep_end(event, event_data) ==
    [event EXCEPT
        !.title = event_data.title,
        !.start_date = event_data.start_date,
        !.end_date = OrDate(event_data.end_date, event.end_date)]

\* _update_event, the fields always overwritten: title, start_date, end_date
update_required(event, event_data) ==
    [event EXCEPT
        !.title = event_data.title,
        !.start_date = event_data.start_date,
        !.end_date = event_data.end_date]

\* _update_event, the fields assigned "event_data.x or event.x"
update_optional(event, event_data) ==
    [event EXCEPT
        !.description = OrStr(event_data.description, event.description),
        !.venue_name = OrSeq(event_data.venue_name, event.venue_name),
        !.venue_address = OrStr(event_data.venue_address, event.venue_address),
        !.ticket_url = OrStr(event_data.ticket_url, event.ticket_url),
        !.price_min = OrNum(event_data.price_min, event.price_min),
        !.price_max = OrNum(event_data.price_max, event.price_max),
        !.on_sale_date = OrDate(event_data.on_sale_date, event.on_sale_date),
        !.on_sale_status = OrStr(event_data.on_sale_status, event.on_sale_status),
        !.image_url = OrStr(event_data.image_url, event.image_url)]

\* _update_event, the availability block, entered when the record carries
\* tickets_available
update_availability(event, event_data, now) ==
    LET total == OrNum(event_data.total_tickets, event.total_tickets)
    IN  IF event_data.tickets_available # None
        THEN [event EXCEPT
                !.tickets_available = event_data.tickets_available,
                !.total_tickets = total,
                !.availability_percentage =
                    calculate_availability_percentage(
                        event_data.tickets_available, total),
                !.last_availability_check = Some(now),
                !.status = determine_status(event_data.tickets_available, total,
                                            event_data.on_sale_status,
                                            None, None, None, now)]
        ELSE event

\* _update_event: the row after the in-place update
update_event(event, event_data, now) ==
    update_availability(
        update_optional(update_required(event, event_data), event_data),
        event_data, now)

\* the AvailabilityHistory rows _update_event appends: it appends none
update_event_history(event, event_data, now) == <<>>

(***************************************************************************)
(* The SQLAlchemy session the aggregator works through.  work is the       *)
(* Event table as the session's transaction sees it (committed rows plus   *)
(* its own flushed changes, a row's id being its position), new holds the  *)
(* rows added with db.add() and not flushed yet.  A Query flushes first    *)
(* when the session autoflushes.                                           *)
(***************************************************************************)
\* a session made with autoflush=False
autoflush_off == FALSE

\* sessionmaker(bind=engine): autoflush keeps its default, True
autoflush == TRUE

\* what a Query does to the session before it runs
query_flush(sess) ==
    IF autoflush THEN [work |-> sess.work \o sess.new, new |-> <<>>] ELSE sess

\* the duplicate branch of _process_events without its continue
skip_duplicate_counted(sess) ==
    [work |-> sess.work, new |-> sess.new, history |-> <<>>,
     outcome |-> "skipped", saved |-> 1]

\* _process_events when _find_duplicate returned a row: log and continue
skip_duplicate(sess) ==
    [work |-> sess.work, new |-> sess.new, history |-> <<>>,
     outcome |-> "skipped", saved |-> 0]

\* one iteration of the loop of _process_events: the session afterwards,
\* what was done, and whether saved_count is incremented
process_record(sess, source_name, event_data, now) ==
    LET s1 == query_flush(sess)
        existing == find_by_source(s1.work, source_name, event_data.source_id)
        duplicate == find_duplicate(s1.work, event_data)
    IN  IF existing # 0
        THEN [work |-> [s1.work EXCEPT
                           ![existing] = update_event(@, event_data, now)],
              new |-> s1.new,
              history |-> update_event_history(s1.work[existing], event_data, now),
              outcome |-> "updated",
              saved |-> 1]
        ELSE IF duplicate # 0
        THEN skip_duplicate(s1)
        ELSE [work |-> s1.work,
              new |-> Append(s1.new, create_event(event_data, now)),
              history |-> <<>>,
              outcome |-> "created",
              saved |-> 1]

(***************************************************************************)
(* DataSource rows (_update_source_tracking).  average_fetch_time is a     *)
(* quotient <<num, den>> in lowest terms, den a power of two.              *)
(***************************************************************************)
RECURSIVE Halve(_)
Halve(q) == IF q[1] % 2 = 0 /\ q[2] % 2 = 0 /\ q[2] > 1
            THEN Halve(<<q[1] \div 2, q[2] \div 2>>) ELSE q

NewDataSource ==
    [is_enabled |-> TRUE, last_fetch_attempt |-> None,
     last_successful_fetch |-> None, last_error |-> None,
     events_fetched_count |-> None, average_fetch_time |-> None]

\* _update_source_tracking storing the count of this fetch in place of the
\* running total
update_source_tracking_overwrite(row, success, events_count, fetch_duration, error, now) ==
    LET source == IF row = None THEN NewDataSource ELSE row[1]
        avg == IF source.average_fetch_time # None
                  /\ source.average_fetch_time[1][1] # 0
               THEN Halve(<<source.average_fetch_time[1][1]
                              + fetch_duration * source.average_fetch_time[1][2],
                            2 * source.average_fetch_time[1][2]>>)
               ELSE <<fetch_duration, 1>>
    IN  IF success
        THEN [source EXCEPT
                !.last_fetch_attempt = Some(now),
                !.last_successful_fetch = Some(now),
                !.events_fetched_count = Some(events_count),
                !.last_error = None,
                !.average_fetch_time = Some(avg)]
        ELSE [source EXCEPT
                !.last_fetch_attempt = Some(now),
                !.last_error = Some(error)]

\* the DataSource row after _update_source_tracking; row is None when the
\* query found no row for the name
update_source_tracking(row, success, events_count, fetch_duration, error, now) ==
    LET source == IF row = None THEN NewDataSource ELSE row[1]
        count == IF TruthyNum(source.events_fetched_count)
                 THEN source.events_fetched_count[1] ELSE 0
        avg == IF source.average_fetch_time # None
                  /\ source.average_fetch_time[1][1] # 0
               THEN Halve(<<source.average_fetch_time[1][1]
                              + fetch_duration * source.average_fetch_time[1][2],
                            2 * source.average_fetch_time[1][2]>>)
               ELSE <<fetch_duration, 1>>
    IN  IF success
        THEN [source EXCEPT
                !.last_fetch_attempt = Some(now),
                !.last_successful_fetch = Some(now),
                !.events_fetched_count = Some(count + events_count),
                !.last_error = None,
                !.average_fetch_time = Some(avg)]
        ELSE [source EXCEPT
                !.last_fetch_attempt = Some(now),
                !.last_error = Some(error)]

(***************************************************************************)
(* Bounds and the inputs the adapters may supply.                          *)
(***************************************************************************)
\* records the adapters return in all, over every fetch_events call
MaxRecords == 2

\* ingestion cycles (one per day of the clock)
MaxCycles == 2

\* the first adapters of the DATA_SOURCES registry, in registry order
Adapters == <<"ticketmaster", "eventbrite">>

AdapterNames == {Adapters[i] : i \in 1..Len(Adapters)}

\* the source-local ids each adapter uses
SourceIdsOf(source_name) ==
    IF source_name = Adapters[1] THEN {"e1", "e2"} ELSE {"e1"}

\* start dates, days on the clock's scale
StartDates == {5, 6}

\* the start dates an adapter reports for an id: the first adapter's first
\* show is listed on either day, every other show on the first day
StartDatesOf(source_name, source_id) ==
    IF source_name = Adapters[1] /\ source_id = "e1" THEN StartDates ELSE {5}

\* fetch durations, seconds
Durations == {2}

\* (tickets_available, total_tickets, on_sale_status) as adapters report them
Signals == {<<None, None, None>>, <<Some(0), Some(100), None>>}

\* an EventData with every optional argument left at its default
EventData(source_name, source_id, title, start_date) ==
    [title |-> Some(title), description |-> None,
     start_date |-> Some(start_date), end_date |-> None,
     venue_name |-> None, venue_address |-> None, ticket_url |-> None,
     price_min |-> None, price_max |-> None, on_sale_date |-> None,
     on_sale_status |-> None, tickets_available |-> None,
     total_tickets |-> None, image_url |-> None,
     source_name |-> source_name, source_id |-> Some(source_id)]

\* the title each adapter gives the one show the model lists
TitleOf(source_name) == IF source_name = Adapters[1] THEN TitleA ELSE TitleB

\* the records adapter source_name may return
RecordsOf(source_name) ==
    UNION {{[EventData(source_name, id, TitleOf(source_name), d) EXCEPT
                !.tickets_available = sig[1],
                !.total_tickets = sig[2],
                !.on_sale_status = sig[3]] :
            d \in StartDatesOf(source_name, id), sig \in Signals} :
           id \in SourceIdsOf(source_name)}

(***************************************************************************)
(* State.                                                                  *)
(***************************************************************************)
VARIABLES
    events,        \* the committed events table (a row's id is its position)
    data_sources,  \* the committed data_sources table: name -> None | <<row>>
    history,       \* the committed availability_history table
    session,       \* the open session: [work, new, history]
    pc,            \* "idle" | "fetch" | "process" | "returned" | "aborted"
    queue,         \* fetch_all_events: the sources still to go, current first
    cycle,         \* the running cycle: [sources, failed]
    results,       \* fetch_all_events: results, name -> None | <<count>>
    batch,         \* _process_events: [saved_count, fetched, fetch_duration, last]
    clock,         \* datetime.utcnow(), in days
    supplied,      \* records the adapters have returned so far
    args,          \* the arguments of a function applied on its own
    ret            \* its result, None before it is applied

vars == <<events, data_sources, history, session, pc, queue, cycle, results,
          batch, clock, supplied, args, ret>>


\* last, repeated and outcome record the latest iteration of the loop: its
\* record, whether the iteration before it had the same record, what it did
NoBatch == [saved_count |-> 0, fetched |-> 0, fetch_duration |-> 0,
            last |-> None, repeated |-> FALSE, outcome |-> "none"]

\* the state after construction: empty tables, no cycle running
PipelineInit ==
    /\ events = <<>>
    /\ data_sources = [n \in AdapterNames |-> None]
    /\ history = <<>>
    /\ session = [work |-> <<>>, new |-> <<>>, history |-> <<>>]
    /\ pc = "idle"
    /\ queue = <<>>
    /\ cycle = [sources |-> {}, failed |-> {}]
    /\ results = [n \in AdapterNames |-> None]
    /\ batch = NoBatch
    /\ clock = 0
    /\ supplied = 0

Init == PipelineInit /\ args = <<>> /\ ret = None

\* the rows the session holds, taken to be only those added in this cycle
AllRowsAddedOnly(sess) == sess.new

\* the rows the session holds, flushed or not
AllRows(sess) == sess.work \o sess.new

RECURSIVE SelectSeq2(_, _)
\* [s for s in sources if s.name in keep], order kept
SelectSeq2(seq, keep) ==
    IF seq = <<>> THEN <<>>
    ELSE IF Head(seq) \in keep THEN <<Head(seq)>> \o SelectSeq2(Tail(seq), keep)
    ELSE SelectSeq2(Tail(seq), keep)

\* fetch_all_events up to its loop: the callers open a session per cycle,
\* get_enabled_sources() and force_sources leave the sources in `enabled`
StartCycle(enabled) ==
    /\ pc \in {"idle", "returned", "aborted"}
    /\ clock < MaxCycles
    /\ clock' = clock + 1
    /\ session' = [work |-> events, new |-> <<>>, history |-> history]
    /\ queue' = SelectSeq2(Adapters, enabled)
    /\ cycle' = [sources |-> enabled, failed |-> {}]
    /\ results' = [n \in AdapterNames |-> None]
    /\ batch' = NoBatch
    /\ pc' = IF queue' = <<>> THEN "returned" ELSE "fetch"
    /\ UNCHANGED <<events, data_sources, history, supplied, args, ret>>

\* source.fetch_events raises and the except branch only sets the result,
\* without recording the failure in the adapter's DataSource row
FetchRaisesUntracked ==
    /\ pc = "fetch"
    /\ results' = [results EXCEPT ![Head(queue)] = Some(0)]
    /\ cycle' = [cycle EXCEPT !.failed = @ \cup {Head(queue)}]
    /\ queue' = Tail(queue)
    /\ pc' = IF queue' = <<>> THEN "returned" ELSE "fetch"
    /\ UNCHANGED <<events, data_sources, history, session, batch, clock, supplied, args, ret>>

\* source.fetch_events raises: the except branch records the failure
FetchRaises ==
    /\ pc = "fetch"
    /\ LET source == Head(queue)
       IN  /\ data_sources' =
                 [data_sources EXCEPT
                    ![source] = Some(update_source_tracking(
                                    @, FALSE, 0, 0, "fetch failed", clock))]
           /\ results' = [results EXCEPT ![source] = Some(0)]
           /\ cycle' = [cycle EXCEPT !.failed = @ \cup {source}]
    /\ queue' = Tail(queue)
    /\ pc' = IF queue' = <<>> THEN "returned" ELSE "fetch"
    /\ UNCHANGED <<events, history, session, batch, clock, supplied, args, ret>>

\* source.fetch_events returns after fetch_duration seconds; the records it
\* returned are drawn one by one as _process_events reaches them
FetchReturns(fetch_duration) ==
    /\ pc = "fetch"
    /\ batch' = [NoBatch EXCEPT !.fetch_duration = fetch_duration]
    /\ pc' = "process"
    /\ UNCHANGED <<events, data_sources, history, session, queue, cycle,
                   results, clock, supplied, args, ret>>

\* one iteration of the loop of _process_events
ProcessRecord(event_data) ==
    /\ pc = "process"
    /\ supplied < MaxRecords
    /\ supplied' = supplied + 1
    /\ LET res == process_record(session, Head(queue), event_data, clock)
       IN  /\ session' = [work |-> res.work, new |-> res.new,
                          history |-> session.history \o res.history]
           /\ batch' = [batch EXCEPT
                           !.saved_count = @ + res.saved,
                           !.fetched = @ + 1,
                           !.last = Some(event_data),
                           !.repeated = (batch.last = Some(event_data)),
                           !.outcome = res.outcome]
    /\ UNCHANGED <<events, data_sources, history, pc, queue, cycle, results,
                   clock, args, ret>>

\* db.commit() of _process_events succeeds, then the success branch of
\* fetch_all_events records the fetch and commits again
CommitBatch ==
    /\ pc = "process"
    /\ LET source == Head(queue)
       IN  /\ events' = AllRows(session)
           /\ history' = session.history
           /\ session' = [work |-> AllRows(session), new |-> <<>>,
                          history |-> session.history]
           /\ data_sources' =
                 [data_sources EXCEPT
                    ![source] = Some(update_source_tracking(
                                    @, TRUE, batch.fetched,
                                    batch.fetch_duration, "", clock))]
           /\ results' = [results EXCEPT ![source] = Some(batch.saved_count)]
    /\ queue' = Tail(queue)
    /\ pc' = IF queue' = <<>> THEN "returned" ELSE "fetch"
    /\ batch' = NoBatch
    /\ UNCHANGED <<cycle, clock, supplied, args, ret>>

\* db.commit() of _process_events raises on a write error.  Nothing rolls the
\* session back, so the Query of _update_source_tracking in the except
\* branch raises in turn and the exception leaves fetch_all_events; the
\* caller closes the session, which discards what was not committed.
CommitFails ==
    /\ pc = "process"
    /\ AllRows(session) # events
    /\ session' = [work |-> events, new |-> <<>>, history |-> history]
    /\ cycle' = [cycle EXCEPT !.failed = @ \cup {Head(queue)}]
    /\ pc' = "aborted"
    /\ batch' = NoBatch
    /\ UNCHANGED <<events, data_sources, history, queue, results, clock,
                   supplied, args, ret>>

Next ==
    \/ \E enabled \in SUBSET AdapterNames : StartCycle(enabled)
    \/ FetchRaises
    \/ \E d \in Durations : FetchReturns(d)
    \/ pc = "process" /\ \E r \in RecordsOf(Head(queue)) : ProcessRecord(r)
    \/ CommitBatch
    \/ CommitFails

Spec == Init /\ [][Next]_vars

(***************************************************************************)
(* Functions applied on their own: Init draws the arguments, the action    *)
(* applies the function once and keeps its result in ret.  The pipeline    *)
(* stays in its constructed state.                                         *)
(***************************************************************************)
pipeline == <<events, data_sources, history, session, pc, queue, cycle,
              results, batch, clock, supplied>>

\* the arguments determine_status is applied to; utcnow() is day 10
StatusArgs ==
    [fn : {"determine_status"},
     tickets_available : {None, Some(0), Some(5), Some(50), Some(60), Some(100)},
     total_tickets : {None, Some(0), Some(100), Some(1000)},
     on_sale_status :
        {None, Some(""), Some("other")}
          \cup {Some(x) : x \in SoldOutSpellings \cup CancelledSpellings
                                  \cup OnSaleSpellings \cup PresaleSpellings
                                  \cup OffSaleSpellings},
     previous_availability : {None, Some(200)},
     last_check : {None, Some(9)},
     event_date : {None, Some(24)},
     now : {10}]

StatusInit == PipelineInit /\ args \in StatusArgs /\ ret = None

ApplyDetermineStatus ==
    /\ ret = None
    /\ ret' = Some(determine_status(args.tickets_available, args.total_tickets,
                                    args.on_sale_status,
                                    args.previous_availability,
                                    args.last_check, args.event_date, args.now))
    /\ UNCHANGED <<pipeline, args>>

StatusNext == ApplyDetermineStatus

SpecStatus == StatusInit /\ [][StatusNext]_vars

\* arguments of _is_selling_fast_by_rate: ticket counts, and timedeltas in
\* whole days (negative when last_check or the event lies on the other side
\* of now)
RateArgs ==
    [fn : {"is_selling_fast_by_rate"},
     current_available : {0, 17, 35, 100, 200},
     previous_available : {34, 49, 50, 200},
     time_since_check : {-1, 0, 1, 3, 7},
     time_until_event : {-1, 0, 10, 14, 15, 30}]

RateInit == PipelineInit /\ args \in RateArgs /\ ret = None

ApplyIsSellingFastByRate ==
    /\ ret = None
    /\ ret' = Some(is_selling_fast_by_rate(args.current_available,
                                           args.previous_available,
                                           args.time_since_check,
                                           args.time_until_event))
    /\ UNCHANGED <<pipeline, args>>

RateNext == ApplyIsSellingFastByRate

SpecRate == RateInit /\ [][RateNext]_vars

\* the optional fields _update_event assigns with "or", all null, all
\* non-null but empty or zero (a datetime has no such value), or all set
OptionalFields(class) ==
    IF class = "null"
    THEN [description |-> None, venue_name |-> None, venue_address |-> None,
          ticket_url |-> None, price_min |-> None, price_max |-> None,
          on_sale_date |-> None, image_url |-> None]
    ELSE IF class = "empty"
    THEN [description |-> Some(""), venue_name |-> Some(<<>>),
          venue_address |-> Some(""), ticket_url |-> Some(""),
          price_min |-> Some(0), price_max |-> Some(0),
          on_sale_date |-> Some(1), image_url |-> Some("")]
    ELSE IF class = "old"
    THEN [description |-> Some("old"), venue_name |-> Some(<<"o", "l", "d">>),
          venue_address |-> Some("old"), ticket_url |-> Some("old"),
          price_min |-> Some(10), price_max |-> Some(30),
          on_sale_date |-> Some(2), image_url |-> Some("old")]
    ELSE [description |-> Some("new"), venue_name |-> Some(<<"n", "e", "w">>),
          venue_address |-> Some("new"), ticket_url |-> Some("new"),
          price_min |-> Some(20), price_max |-> Some(40),
          on_sale_date |-> Some(3), image_url |-> Some("new")]

WithOptional(event_data, class) ==
    LET o == OptionalFields(class)
    IN  [event_data EXCEPT
            !.description = o.description, !.venue_name = o.venue_name,
            !.venue_address = o.venue_address, !.ticket_url = o.ticket_url,
            !.price_min = o.price_min, !.price_max = o.price_max,
            !.on_sale_date = o.on_sale_date, !.image_url = o.image_url]

\* the records the stored Event of an update was created from
StoredRecords ==
    {[WithOptional(EventData(Adapters[1], "e1", TitleA, 5), class) EXCEPT
         !.end_date = e, !.tickets_available = ta, !.total_tickets = tt,
         !.on_sale_status = oss] :
     class \in {"null", "empty", "old"}, e \in {None, Some(5)},
     ta \in {None, Some(0), Some(5), Some(60)}, tt \in {None, Some(0), Some(100)},
     oss \in {None, Some("onsale"), Some("cancelled")}}

\* the records the stored Event is updated from (same provenance)
UpdateRecords ==
    {[WithOptional(EventData(Adapters[1], "e1", td[1], td[2]), class) EXCEPT
         !.end_date = e, !.tickets_available = ta, !.total_tickets = tt,
         !.on_sale_status = oss] :
     class \in {"null", "empty", "new"}, td \in {<<TitleA, 5>>, <<TitleB, 6>>},
     e \in {None, Some(6)},
     ta \in {None, Some(0), Some(5), Some(60)}, tt \in {None, Some(0), Some(100)},
     oss \in {None, Some(""), Some("cancelled")}}

\* the records of an Event still to come whose ticket count is known
VelocityStored ==
    {[EventData(Adapters[1], "e1", TitleA, 5) EXCEPT
         !.tickets_available = ta, !.total_tickets = tt, !.on_sale_status = oss] :
     ta \in {Some(100), Some(200)}, tt \in {None, Some(1000)},
     oss \in {None, Some("onsale")}}

\* the records such an Event is updated from, with fewer tickets left
VelocityRecords ==
    {[EventData(Adapters[1], "e1", TitleA, 5) EXCEPT
         !.tickets_available = ta, !.on_sale_status = oss] :
     ta \in {Some(60), Some(90), Some(199)}, oss \in {None, Some("onsale")}}

\* an Event created on day 8 is updated on day 10, after its start; an Event
\* created on day 1 is updated on day 3, before its start on day 5
UpdateArgs ==
    {[fn |-> "update_event", event |-> create_event(r0, 8), event_data |-> r1,
      now |-> 10] : r0 \in StoredRecords, r1 \in UpdateRecords}
    \cup {[fn |-> "update_event", event |-> create_event(r0, 1), event_data |-> r1,
            now |-> 3] : r0 \in VelocityStored, r1 \in VelocityRecords}

UpdateInit == PipelineInit /\ args \in UpdateArgs /\ ret = None

ApplyUpdateEvent ==
    /\ ret = None
    /\ ret' = Some([event |-> update_event(args.event, args.event_data, args.now),
                    history |-> update_event_history(args.event, args.event_data,
                                                     args.now)])
    /\ UNCHANGED <<pipeline, args>>

UpdateNext == ApplyUpdateEvent

SpecUpdate == UpdateInit /\ [][UpdateNext]_vars

\* the records the stored Events of a duplicate search were created from:
\* row i has provenance (Adapters[1], "e"i)
DedupStored(source_id) ==
    {[EventData(Adapters[1], source_id, t, d) EXCEPT !.venue_name = v] :
     t \in {Title17, Title22, Title23, TitleOther}, d \in StartDates,
     v \in {None, Some(<<>>), Some(VenueAbcx), Some(VenueAbcde)}}

DedupStores ==
    {<<create_event(r1, 8)>> : r1 \in DedupStored("e1")}
    \cup {<<create_event(r1, 8), create_event(r2, 8)>> :
          r1 \in DedupStored("e1"), r2 \in DedupStored("e2")}

\* the incoming records of a duplicate search
DedupRecords ==
    {[EventData(s, "e1", t, 5) EXCEPT !.venue_name = v] :
     s \in AdapterNames, t \in {Title17, Title17Upper},
     v \in {None, Some(<<>>), Some(VenueAbcd)}}

DedupArgs ==
    {[fn |-> "find_duplicate", rows |-> rows, event_data |-> r, now |-> 10] :
     rows \in DedupStores, r \in DedupRecords}

DedupInit == PipelineInit /\ args \in DedupArgs /\ ret = None

\* _find_duplicate on the stored rows, and the iteration of _process_events
\* for the record on a session holding those rows
ApplyFindDuplicate ==
    /\ ret = None
    /\ ret' = Some([duplicate |-> find_duplicate(args.rows, args.event_data),
                    processed |-> process_record(
                                      [work |-> args.rows, new |-> <<>>],
                                      args.event_data.source_name,
                                      args.event_data, args.now)])
    /\ UNCHANGED <<pipeline, args>>

DedupNext == ApplyFindDuplicate

SpecDedup == DedupInit /\ [][DedupNext]_vars

(***************************************************************************)
(* Properties.                                                             *)
(***************************************************************************)
\* C10: determine_status returns SOLD_OUT whenever tickets_available == 0,
\* whatever total_tickets, the sale-status string and the prior-availability
\* arguments are.
C10_ZeroAvailableIsSoldOut ==
    (ret # None /\ args.tickets_available = Some(0)) => ret = Some(SOLD_OUT)

\* C10 witness: zero tickets with a cancellation spelling and prior data
C10_Witness ==
    /\ ret = Some(SOLD_OUT)
    /\ args.tickets_available = Some(0)
    /\ args.on_sale_status = Some("cancelled")
    /\ args.previous_availability # None
    /\ args.last_check # None
    /\ args.event_date # None

\* C3: every in-place update of an existing Event appends exactly one
\* AvailabilityHistory row when the newly computed status differs from the
\* stored status, and none when the status is unchanged.
C3_HistoryExactlyOnChange ==
    ret # None =>
        Len(ret[1].history) =
            (IF ret[1].event.status # args.event.status THEN 1 ELSE 0)

\* C8: on update each optional field takes the incoming value whenever that
\* value is non-null (a price of 0 and an empty string included) and keeps
\* its previous value exactly when the incoming value is null.
C8_OptionalTakesNonNull ==
    ret # None =>
        \A f \in {"venue_name", "venue_address", "ticket_url", "price_min",
                  "price_max", "image_url", "on_sale_date", "on_sale_status"} :
            ret[1].event[f] = (IF args.event_data[f] # None
                               THEN args.event_data[f] ELSE args.event[f])

\* C9: after an update the Event's title, start_date and end_date equal the
\* record's, also when the record's end_date is null and the Event had one.
C9_RequiredOverwritten ==
    ret # None =>
        /\ ret[1].event.title = args.event_data.title
        /\ ret[1].event.start_date = args.event_data.start_date
        /\ ret[1].event.end_date = args.event_data.end_date

\* C9 witness: a stored end_date is overwritten by null, title and start change
C9_Witness ==
    /\ ret # None
    /\ args.event.end_date # None
    /\ args.event_data.end_date = None
    /\ ret[1].event.end_date = None
    /\ args.event.title # args.event_data.title
    /\ ret[1].event.title = args.event_data.title
    /\ ret[1].event.start_date # args.event.start_date

\* C5: _find_duplicate returns an Event iff some stored Event has the same
\* start timestamp, case-insensitive title ratio strictly above 0.85 and,
\* when both have a venue name, venue ratio strictly above 0.75 (1.0 when
\* either venue name is absent); exactly 0.85 or 0.75 is not a match.
C5_MatchPredicate ==
    ret # None =>
        LET r == args.event_data
            has_venue(x) == x.venue_name # None /\ x.venue_name[1] # <<>>
            matches(e) ==
                LET t == ratio(lower(r.title[1]), lower(e.title[1]))
                    v == IF has_venue(r) /\ has_venue(e)
                         THEN ratio(lower(r.venue_name[1]), lower(e.venue_name[1]))
                         ELSE <<1, 1>>
                IN  /\ e.start_date = r.start_date
                    /\ t[1] * 100 > 85 * t[2]
                    /\ v[1] * 100 > 75 * v[2]
        IN  (ret[1].duplicate # 0) <=>
                (\E i \in 1..Len(args.rows) : matches(args.rows[i]))

\* C5 witness: the second row is returned; the first has the record's start
\* date and a title ratio of exactly 0.85, the second a venue ratio above
\* 0.75 and a title in another case
C5_Witness ==
    /\ ret # None
    /\ ret[1].duplicate = 2
    /\ args.rows[1].start_date = args.event_data.start_date
    /\ args.rows[1].title = Some(Title23)
    /\ args.rows[1].venue_name = None
    /\ args.event_data.title = Some(Title17Upper)
    /\ args.rows[2].title = Some(Title22)
    /\ args.event_data.venue_name = Some(VenueAbcd)
    /\ args.rows[2].venue_name = Some(VenueAbcde)

\* C6: a record with no provenance match is never treated as a duplicate of
\* an Event with another start timestamp, and when no Event is found to
\* match a new Event is created from it.
C6_DifferentStartNeverMerged ==
    (ret # None /\ find_by_source(args.rows, args.event_data.source_name,
                                  args.event_data.source_id) = 0) =>
        LET r == args.event_data
            p == ret[1].processed
            created == /\ p.outcome = "created"
                       /\ p.work = args.rows
                       /\ Len(p.new) = 1
                       /\ p.new[1].title = r.title
                       /\ p.new[1].start_date = r.start_date
                       /\ p.new[1].source_name = r.source_name
        IN  /\ ret[1].duplicate # 0 =>
                   args.rows[ret[1].duplicate].start_date = r.start_date
            /\ ret[1].duplicate = 0 => created
            /\ (\A i \in 1..Len(args.rows) :
                    args.rows[i].start_date # r.start_date) => created

\* C6 witness: the stored Event has the record's title and no venue, another
\* start date and another source, and a new Event is created
C6_Witness ==
    /\ ret # None
    /\ Len(args.rows) = 1
    /\ args.rows[1].title = args.event_data.title
    /\ args.rows[1].venue_name = None
    /\ args.event_data.venue_name = None
    /\ args.rows[1].start_date # args.event_data.start_date
    /\ args.rows[1].source_name # args.event_data.source_name
    /\ ret[1].processed.outcome = "created"
    /\ Len(ret[1].processed.new) = 1

\* C1 (as stated): processing the same record twice, in one batch or in two
\* successive batches, leaves exactly one Event row with its provenance and
\* as many Event rows as processing it once.
C1_ExactlyOneRow ==
    pc = "process" =>
        \A r \in RecordsOf(Head(queue)) :
            LET source_name == Head(queue)
                count(rows) == Cardinality({i \in 1..Len(rows) :
                                   /\ rows[i].source_name = source_name
                                   /\ rows[i].source_id = r.source_id})
                once == process_record(session, source_name, r, clock)
                rows_once == once.work \o once.new
                twice == process_record(once, source_name, r, clock)
                same_batch == twice.work \o twice.new
                again == process_record([work |-> rows_once, new |-> <<>>],
                                        source_name, r, clock + 1)
                next_batch == again.work \o again.new
            IN  /\ count(same_batch) = 1
                /\ count(next_batch) = 1
                /\ Len(same_batch) = Len(rows_once)
                /\ Len(next_batch) = Len(rows_once)

\* C1 (amended): processing the same record twice, in one batch or in two
\* successive batches, leaves at most one Event row with its provenance,
\* exactly one unless the record is skipped as a duplicate of a stored Event
\* (then none), and as many Event rows as processing it once.
C1_AtMostOneRow ==
    pc = "process" =>
        \A r \in RecordsOf(Head(queue)) :
            LET source_name == Head(queue)
                count(rows) == Cardinality({i \in 1..Len(rows) :
                                   /\ rows[i].source_name = source_name
                                   /\ rows[i].source_id = r.source_id})
                once == process_record(session, source_name, r, clock)
                rows_once == once.work \o once.new
                twice == process_record(once, source_name, r, clock)
                same_batch == twice.work \o twice.new
                again == process_record([work |-> rows_once, new |-> <<>>],
                                        source_name, r, clock + 1)
                next_batch == again.work \o again.new
                expected == IF once.outcome = "skipped" THEN 0 ELSE 1
            IN  /\ count(same_batch) = expected
                /\ count(next_batch) = expected
                /\ Len(same_batch) = Len(rows_once)
                /\ Len(next_batch) = Len(rows_once)

\* C1 witness: one batch has processed the same record twice in a row, the
\* second time updating the row the first created before any commit
C1_Witness ==
    /\ pc = "process"
    /\ batch.repeated
    /\ batch.outcome = "updated"
    /\ batch.saved_count = 2
    /\ Len(AllRows(session)) = Len(events) + 1

\* C2: in every reachable store state, committed or held by the session, no
\* two Event rows have the same (source_name, source_id).
C2_ProvenanceUnique ==
    /\ \A i, j \in 1..Len(events) :
           (/\ events[i].source_name = events[j].source_name
            /\ events[i].source_id = events[j].source_id) => i = j
    /\ \A i, j \in 1..Len(AllRows(session)) :
           (/\ AllRows(session)[i].source_name = AllRows(session)[j].source_name
            /\ AllRows(session)[i].source_id = AllRows(session)[j].source_id)
           => i = j

\* C2 witness: a committed batch held two records of one source_id with
\* different start dates, both saved, and the store has one row
C2_Witness ==
    /\ pc = "returned"
    /\ Len(events) = 1
    /\ \E s \in AdapterNames :
           /\ results[s] = Some(2)
           /\ events[1].source_name = s
           /\ events[1].start_date = Some(6)

\* C4: when an enabled adapter fails in a cycle, in fetch_events or while its
\* batch is processed and committed, every other enabled adapter has been
\* fetched, has a result and a DataSource row updated in that cycle, and
\* the failing adapter's result is 0.
C4_FailureIsolated ==
    (pc \in {"returned", "aborted"} /\ cycle.failed # {}) =>
        \A s \in cycle.sources :
            IF s \in cycle.failed
            THEN results[s] = Some(0)
            ELSE /\ results[s] # None
                 /\ data_sources[s] # None
                 /\ data_sources[s][1].last_fetch_attempt = Some(clock)

\* C4 witness: both adapters are enabled, the commit of the first one's batch
\* has failed, and the cycle has ended without fetching the second
C4_Witness ==
    /\ pc = "aborted"
    /\ cycle.sources = AdapterNames
    /\ cycle.failed = {Adapters[1]}
    /\ queue = Adapters
    /\ results[Adapters[2]] = None
    /\ data_sources[Adapters[2]] = None

\* C7: an iteration of _process_events for a record with no provenance match
\* for which _find_duplicate returns a row creates no Event row, changes no
\* Event row and does not count the record as saved.
C7_SkipHasNoEffect ==
    [][(/\ pc = "process"
        /\ supplied' = supplied + 1
        /\ find_by_source(AllRows(session), Head(queue),
                          batch'.last[1].source_id) = 0
        /\ find_duplicate(AllRows(session), batch'.last[1]) # 0)
       => (/\ AllRows(session') = AllRows(session)
           /\ events' = events
           /\ batch'.saved_count = batch.saved_count
           /\ batch'.fetched = batch.fetched + 1)]_vars

\* C7 witness: a record of the second adapter has just been skipped as a
\* duplicate of a row of the first
C7_Witness ==
    /\ pc = "process"
    /\ batch.outcome = "skipped"
    /\ batch.saved_count = 0
    /\ batch.last # None
    /\ \A i \in 1..Len(AllRows(session)) :
           AllRows(session)[i].source_name # batch.last[1].source_name

\* C11: with no prior-availability arguments determine_status is the
\* first-match-wins reference: no tickets or a sold-out spelling gives
\* SOLD_OUT; else a cancellation spelling gives CANCELLED; else known counts
\* with total > 0 and percentage or count at or below its threshold give
\* SELLING_FAST; else an on-sale or presale spelling gives ON_SALE; else
\* UPCOMING.
C11_PrecedenceWithoutVelocity ==
    (/\ ret # None
     /\ args.fn = "determine_status"
     /\ args.previous_availability = None
     /\ args.last_check = None
     /\ args.event_date = None) =>
        LET a == args.tickets_available
            t == args.total_tickets
            s == IF args.on_sale_status = None THEN "" ELSE args.on_sale_status[1]
            reference ==
                IF a = Some(0) \/ s \in {"soldout", "sold_out", "sold-out"}
                THEN "sold_out"
                ELSE IF s \in {"cancelled", "canceled"}
                THEN "cancelled"
                ELSE IF /\ a # None /\ t # None /\ t[1] > 0
                        /\ (a[1] * 100 <= 10 * t[1] \/ a[1] <= 50)
                THEN "selling_fast"
                ELSE IF s \in {"onsale", "on_sale", "presale", "pre_sale"}
                THEN "on_sale"
                ELSE "upcoming"
        IN  ret = Some(reference)

\* C11 witness: a presale spelling with counts above both thresholds gives
\* ON_SALE when no prior availability is passed
C11_Witness ==
    /\ ret = Some(ON_SALE)
    /\ args.fn = "determine_status"
    /\ args.on_sale_status = Some("pre_sale")
    /\ args.tickets_available = Some(60)
    /\ args.total_tickets = Some(100)
    /\ args.previous_availability = None
    /\ args.last_check = None
    /\ args.event_date = None

\* C12: with total > 0, available > 0 and no sold-out or cancellation
\* spelling, determine_status returns SELLING_FAST when the percentage
\* equals the percentage threshold or the count equals the count threshold,
\* and not by this rule when both are strictly above their thresholds.
C12_InclusiveThresholds ==
    (/\ ret # None
     /\ args.fn = "determine_status"
     /\ args.tickets_available # None
     /\ args.total_tickets # None
     /\ args.total_tickets[1] > 0
     /\ args.tickets_available[1] > 0
     /\ ~(/\ args.on_sale_status # None
          /\ args.on_sale_status[1] \in SoldOutSpellings \cup CancelledSpellings)) =>
        LET a == args.tickets_available[1]
            t == args.total_tickets[1]
            no_rate == \/ args.previous_availability = None
                       \/ args.last_check = None
                       \/ args.event_date = None
        IN  /\ a * 100 = sellout_threshold * t => ret = Some(SELLING_FAST)
            /\ a = low_availability_threshold => ret = Some(SELLING_FAST)
            /\ (/\ a * 100 > sellout_threshold * t
                /\ a > low_availability_threshold
                /\ no_rate) => ret # Some(SELLING_FAST)

\* C12 witness: 100 of 1000 tickets, exactly the percentage threshold and
\* above the count threshold, gives SELLING_FAST
C12_Witness ==
    /\ ret = Some(SELLING_FAST)
    /\ args.fn = "determine_status"
    /\ args.tickets_available = Some(100)
    /\ args.total_tickets = Some(1000)
    /\ args.on_sale_status = Some("onsale")
    /\ args.previous_availability = None

\* C13: _is_selling_fast_by_rate returns true iff the elapsed time is
\* positive, the event is in the future, velocity = (previous - current) /
\* elapsed days is strictly positive, and days_to_sellout = current /
\* velocity is at most 7 or below half the days until the event.
C13_VelocityRule ==
    (ret # None /\ args.fn = "is_selling_fast_by_rate") =>
        LET cur == args.current_available
            sold == args.previous_available - args.current_available
            since == args.time_since_check
            until == args.time_until_event
        IN  ret[1] <=> (/\ since > 0
                        /\ until > 0
                        /\ sold > 0
                        /\ \/ cur * since <= 7 * sold
                           \/ 2 * cur * since < until * sold)

\* C13 witness: 34 tickets a week ago, 17 now, the event 10 days out; the
\* velocity is 17/7 a day and the projected sellout exactly 7 days away
C13_Witness ==
    /\ ret = Some(FALSE)
    /\ args.fn = "is_selling_fast_by_rate"
    /\ args.current_available = 17
    /\ args.previous_available = 34
    /\ args.time_since_check = 7
    /\ args.time_until_event = 10

\* C14: re-ingesting, with the same provenance, a record whose sale-status
\* is a cancellation spelling and whose tickets_available is not 0 (null
\* included) leaves the Event with status CANCELLED, whatever its stored
\* status was.
C14_CancelledFromAnyStatus ==
    (/\ ret # None
     /\ args.fn = "update_event"
     /\ args.event_data.on_sale_status # None
     /\ args.event_data.on_sale_status[1] \in {"cancelled", "canceled"}
     /\ args.event_data.tickets_available # Some(0)) =>
        ret[1].event.status = CANCELLED

\* C14 witness: an ON_SALE Event is re-ingested from a cancelled record that
\* carries no ticket count
C14_Witness ==
    /\ ret # None
    /\ args.fn = "update_event"
    /\ args.event.status = ON_SALE
    /\ args.event_data.on_sale_status = Some("cancelled")
    /\ args.event_data.tickets_available = None
    /\ ret[1].event.status = ON_SALE


\* ------------------------------------------------------------------
\* SelloutMonitor (app/services/sellout_monitor.py)
\* ------------------------------------------------------------------

\* AlertResult: the two lists of events check_for_alerts returns
AlertResult(selling_fast, sold_out) == [newly_selling_fast |-> selling_fast, newly_sold_out |-> sold_out]

\* the threshold test with the two comparisons made strict
should_generate_alert_strict(result, min_selling_fast, min_sold_out) ==
    \/ Len(result.newly_selling_fast) > min_selling_fast
    \/ Len(result.newly_sold_out) > min_sold_out

\* should_generate_alert: either list reaches its configured minimum
should_generate_alert(result, min_selling_fast, min_sold_out) ==
    LET has_enough_selling_fast == Len(result.newly_selling_fast) >= min_selling_fast
        has_enough_sold_out == Len(result.newly_sold_out) >= min_sold_out
    IN has_enough_selling_fast \/ has_enough_sold_out

\* the first n event ids, as a result list of n events
FirstIds(n) == [i \in 1..n |-> i]

MaxAlertEvents == 4

\* the arguments should_generate_alert is applied to: a result with up to
\* MaxAlertEvents events in each list and the two configured minimums
AlertArgs ==
    [fn : {"should_generate_alert"},
     result : {AlertResult(FirstIds(n), FirstIds(m)) : n \in 0..MaxAlertEvents, m \in 0..MaxAlertEvents},
     sellout_alert_min_selling_fast : 0..MaxAlertEvents,
     sellout_alert_min_sold_out : 0..MaxAlertEvents]

AlertInit == PipelineInit /\ args \in AlertArgs /\ ret = None

ApplyShouldGenerateAlert ==
    /\ ret = None
    /\ ret' = Some(should_generate_alert(args.result,
                                         args.sellout_alert_min_selling_fast,
                                         args.sellout_alert_min_sold_out))
    /\ UNCHANGED <<pipeline, args>>

AlertNext == ApplyShouldGenerateAlert

SpecAlert == AlertInit /\ [][AlertNext]_vars

\* C15: should_generate_alert answers true exactly when the number of
\* newly-selling-fast events is at least the configured selling-fast minimum
\* or the number of newly-sold-out events is at least the configured sold-out
\* minimum; with no selling-fast event, a selling-fast minimum of 1 and a
\* sold-out minimum of 3, two sold-out events give no alert and three give
\* one.
C15_AlertThreshold ==
    (ret # None /\ args.fn = "should_generate_alert") =>
        /\ ret[1] = (\/ Len(args.result.newly_selling_fast) >= args.sellout_alert_min_selling_fast
                     \/ Len(args.result.newly_sold_out) >= args.sellout_alert_min_sold_out)
        /\ (/\ Len(args.result.newly_selling_fast) = 0
            /\ args.sellout_alert_min_selling_fast >= 1
            /\ args.sellout_alert_min_sold_out = 3) =>
               /\ Len(args.result.newly_sold_out) = 2 => ret[1] = FALSE
               /\ Len(args.result.newly_sold_out) = 3 => ret[1] = TRUE

\* C15 witness: three sold-out events and no selling-fast event, against
\* minimums of 1 and 3, raise the alert
C15_Witness ==
    /\ ret = Some(TRUE)
    /\ args.fn = "should_generate_alert"
    /\ Len(args.result.newly_selling_fast) = 0
    /\ Len(args.result.newly_sold_out) = 3
    /\ args.sellout_alert_min_selling_fast = 1
    /\ args.sellout_alert_min_sold_out = 3


\* all orderings of a finite set, as sequences without repetition
Orderings(S) == {f \in [1..Cardinality(S) -> S] : \A i, j \in DOMAIN f : i # j => f[i] # f[j]}

\* .order_by(AvailabilityHistory.recorded_at.desc()): rows of equal
\* recorded_at come in whatever order the database yields
OrderedByRecordedAtDesc(rows) == {f \in Orderings(rows) : \A i, j \in DOMAIN f : i < j => f[i].recorded_at >= f[j].recorded_at}

\* the history query of check_for_alerts: the rows recorded at or after
\* `since`, newest first
history_query(history_rows, since) == OrderedByRecordedAtDesc({r \in history_rows : r.recorded_at >= since})

\* the loop over the history rows that lets every row count, seen or not
RECURSIVE latest_transitions_every_row(_, _, _)
latest_transitions_every_row(history_records, i, acc) ==
    IF i > Len(history_records) THEN acc
    ELSE LET record == history_records[i]
         IN latest_transitions_every_row(history_records, i + 1,
                [seen_event_ids |-> acc.seen_event_ids \cup {record.event_id},
                 selling_fast_ids |-> IF record.new_status = SELLING_FAST
                                      THEN acc.selling_fast_ids \cup {record.event_id}
                                      ELSE acc.selling_fast_ids,
                 sold_out_ids |-> IF record.new_status = SOLD_OUT
                                  THEN acc.sold_out_ids \cup {record.event_id}
                                  ELSE acc.sold_out_ids])

\* the loop over the history rows, from row i on: the first row met for an
\* event decides, later rows of that event are skipped
RECURSIVE latest_transitions(_, _, _)
latest_transitions(history_records, i, acc) ==
    IF i > Len(history_records) THEN acc
    ELSE LET record == history_records[i]
         IN IF record.event_id \in acc.seen_event_ids
            THEN latest_transitions(history_records, i + 1, acc)
            ELSE latest_transitions(history_records, i + 1,
                    [seen_event_ids |-> acc.seen_event_ids \cup {record.event_id},
                     selling_fast_ids |-> IF record.new_status = SELLING_FAST
                                          THEN acc.selling_fast_ids \cup {record.event_id}
                                          ELSE acc.selling_fast_ids,
                     sold_out_ids |-> IF record.new_status = SOLD_OUT
                                      THEN acc.sold_out_ids \cup {record.event_id}
                                      ELSE acc.sold_out_ids])

\* seen_event_ids, selling_fast_ids and sold_out_ids before the loop
NoTransitions == [seen_event_ids |-> {}, selling_fast_ids |-> {}, sold_out_ids |-> {}]

\* .order_by(Event.availability_percentage.asc()) on a nullable column: the
\* rows whose percentage is null come all first or all last, as the database
\* in use places them
OrderedByAvailabilityAsc(rows) ==
    {f \in Orderings(rows) :
        /\ \A i, j \in DOMAIN f :
              (i < j /\ f[i].availability_percentage # None /\ f[j].availability_percentage # None)
                  => f[i].availability_percentage[1] <= f[j].availability_percentage[1]
        /\ \/ \A i, j \in DOMAIN f : (i < j /\ f[j].availability_percentage = None) => f[i].availability_percentage = None
           \/ \A i, j \in DOMAIN f : (i < j /\ f[i].availability_percentage = None) => f[j].availability_percentage = None}

\* .order_by(Event.start_date.asc())
OrderedByStartDateAsc(rows) == {f \in Orderings(rows) : \A i, j \in DOMAIN f : i < j => f[i].start_date <= f[j].start_date}

\* the Event queries with the start_date filter left out
events_query_any_start(event_rows, ids, now) == {e \in event_rows : e.id \in ids}

\* the Event queries of check_for_alerts: the events of the given ids that
\* start at or after `now`
events_query(event_rows, ids, now) == {e \in event_rows : e.id \in ids /\ e.start_date >= now}

\* check_for_alerts: the results it can return, one per order the database
\* can yield the rows in
check_for_alerts(history_rows, event_rows, since, now) ==
    UNION {LET latest == latest_transitions(history_records, 1, NoTransitions)
           IN {AlertResult(selling_fast, sold_out) :
                  selling_fast \in (IF latest.selling_fast_ids # {}
                                    THEN OrderedByAvailabilityAsc(events_query(event_rows, latest.selling_fast_ids, now))
                                    ELSE {<<>>}),
                  sold_out \in (IF latest.sold_out_ids # {}
                                THEN OrderedByStartDateAsc(events_query(event_rows, latest.sold_out_ids, now))
                                ELSE {<<>>})}
           : history_records \in history_query(history_rows, since)}


MaxHistoryRows == 3

\* the time of the check (utcnow() in check_for_alerts) and the start of the
\* lookback window, 25 hours earlier
MonitorNow == 30

MonitorSince == MonitorNow - 25

\* the Event table the monitor reads: two future events (one starting at the
\* very time of the check, one without a percentage), one past event, and a
\* future event tied with the first on percentage
MonitorEvents ==
    {[id |-> 1, start_date |-> 40, availability_percentage |-> Some(5)],
     [id |-> 2, start_date |-> MonitorNow, availability_percentage |-> None],
     [id |-> 3, start_date |-> MonitorNow - 1, availability_percentage |-> Some(8)],
     [id |-> 4, start_date |-> 40, availability_percentage |-> Some(5)]}

\* the AvailabilityHistory rows the table can hold, by the columns
\* check_for_alerts reads: recorded before the window, at its very start, and
\* twice inside it
MonitorHistoryRows ==
    [event_id : {e.id : e \in MonitorEvents},
     new_status : {SELLING_FAST, SOLD_OUT, ON_SALE},
     recorded_at : {MonitorSince - 1, MonitorSince, 20}]

\* the history tables of at most n rows
RECURSIVE HistoryTables(_)
HistoryTables(n) ==
    IF n = 0 THEN {{}}
    ELSE LET smaller == HistoryTables(n - 1)
         IN smaller \cup {h \cup {r} : h \in smaller, r \in MonitorHistoryRows}

\* the arguments check_for_alerts is applied to
MonitorArgs ==
    [fn : {"check_for_alerts"},
     history : HistoryTables(MaxHistoryRows),
     events : {MonitorEvents},
     since : {MonitorSince},
     now : {MonitorNow}]

MonitorInit == PipelineInit /\ args \in MonitorArgs /\ ret = None

ApplyCheckForAlerts ==
    /\ ret = None
    /\ \E result \in check_for_alerts(args.history, args.events, args.since, args.now) :
          ret' = Some(result)
    /\ UNCHANGED <<pipeline, args>>

MonitorNext == ApplyCheckForAlerts

SpecMonitor == MonitorInit /\ [][MonitorNext]_vars


\* the rows of the history table inside the lookback window that belong to
\* event id
InWindow(id) == {r \in args.history : r.event_id = id /\ r.recorded_at >= args.since}

\* the most recent of them (several when recorded at the same instant)
LatestInWindow(id) == {r \in InWindow(id) : \A q \in InWindow(id) : q.recorded_at <= r.recorded_at}

\* the ids of the events in a result list
IdsOf(list) == {list[i].id : i \in DOMAIN list}

\* C16: check_for_alerts lists an event as newly selling fast (newly sold
\* out) only if a most recent history row of that event inside the window
\* has new_status SELLING_FAST (SOLD_OUT); no event is in both lists; an
\* event whose most recent in-window transition is to another status is in
\* neither list, even when an earlier in-window row qualified.
C16_LatestTransitionOnly ==
    (ret # None /\ args.fn = "check_for_alerts") =>
        /\ \A id \in IdsOf(ret[1].newly_selling_fast) :
              \E r \in LatestInWindow(id) : r.new_status = SELLING_FAST
        /\ \A id \in IdsOf(ret[1].newly_sold_out) :
              \E r \in LatestInWindow(id) : r.new_status = SOLD_OUT
        /\ IdsOf(ret[1].newly_selling_fast) \cap IdsOf(ret[1].newly_sold_out) = {}
        /\ \A e \in args.events :
              (\A r \in LatestInWindow(e.id) : r.new_status \notin {SELLING_FAST, SOLD_OUT}) =>
                  e.id \notin IdsOf(ret[1].newly_selling_fast) \cup IdsOf(ret[1].newly_sold_out)

\* C16 witness: event 1 went SELLING_FAST and later, still inside the window,
\* back to ON_SALE, while event 4 went SELLING_FAST; only event 4 is listed
C16_Witness ==
    /\ ret # None
    /\ args.fn = "check_for_alerts"
    /\ args.history = {[event_id |-> 1, new_status |-> SELLING_FAST, recorded_at |-> MonitorSince],
                       [event_id |-> 1, new_status |-> ON_SALE, recorded_at |-> 20],
                       [event_id |-> 4, new_status |-> SELLING_FAST, recorded_at |-> 20]}
    /\ IdsOf(ret[1].newly_selling_fast) = {4}
    /\ ret[1].newly_sold_out = <<>>

\* C17: check_for_alerts returns no event that starts before the time of the
\* check, and every event it returns has a history row of the list's status
\* recorded at or after the start of the lookback window: a row recorded
\* earlier never brings an event into a list, whatever its new_status.
C17_FutureEventsInWindowRows ==
    (ret # None /\ args.fn = "check_for_alerts") =>
        /\ \A i \in DOMAIN ret[1].newly_selling_fast :
              /\ ret[1].newly_selling_fast[i].start_date >= args.now
              /\ \E r \in InWindow(ret[1].newly_selling_fast[i].id) : r.new_status = SELLING_FAST
        /\ \A i \in DOMAIN ret[1].newly_sold_out :
              /\ ret[1].newly_sold_out[i].start_date >= args.now
              /\ \E r \in InWindow(ret[1].newly_sold_out[i].id) : r.new_status = SOLD_OUT

\* C17 witness: the past event 3 went SELLING_FAST inside the window, event 1
\* went SOLD_OUT before the window, event 2 (starting at the time of the
\* check) went SOLD_OUT inside it; only event 2 is returned
C17_Witness ==
    /\ ret # None
    /\ args.fn = "check_for_alerts"
    /\ args.history = {[event_id |-> 3, new_status |-> SELLING_FAST, recorded_at |-> 20],
                       [event_id |-> 1, new_status |-> SOLD_OUT, recorded_at |-> MonitorSince - 1],
                       [event_id |-> 2, new_status |-> SOLD_OUT, recorded_at |-> 20]}
    /\ ret[1].newly_selling_fast = <<>>
    /\ IdsOf(ret[1].newly_sold_out) = {2}


\* the DataSource row of an adapter as _update_source_tracking finds it
RowOf(sources, name) == IF sources[name] = None THEN NewDataSource ELSE sources[name][1]

\* C18: when an adapter fails in a cycle, its DataSource row gets
\* last_fetch_attempt set to the time of the cycle and last_error set to the
\* error text, and keeps the events_fetched_count, last_successful_fetch and
\* average_fetch_time it had before.
C18_FailureRecorded ==
    [][\A name \in AdapterNames :
          (name \in cycle'.failed /\ name \notin cycle.failed) =>
              /\ data_sources'[name] # None
              /\ RowOf(data_sources', name).last_fetch_attempt = Some(clock)
              /\ RowOf(data_sources', name).last_error # None
              /\ RowOf(data_sources', name).events_fetched_count = RowOf(data_sources, name).events_fetched_count
              /\ RowOf(data_sources', name).last_successful_fetch = RowOf(data_sources, name).last_successful_fetch
              /\ RowOf(data_sources', name).average_fetch_time = RowOf(data_sources, name).average_fetch_time]_vars

\* C18 witness: an adapter that succeeded with one record in the first cycle
\* fails to fetch in the second; its row carries the error and the second
\* attempt, and the count, success time and average of the first cycle
C18_Witness ==
    /\ clock = 2
    /\ Adapters[1] \in cycle.failed
    /\ data_sources[Adapters[1]] # None
    /\ RowOf(data_sources, Adapters[1]).last_fetch_attempt = Some(2)
    /\ RowOf(data_sources, Adapters[1]).last_error = Some("fetch failed")
    /\ RowOf(data_sources, Adapters[1]).events_fetched_count = Some(1)
    /\ RowOf(data_sources, Adapters[1]).last_successful_fetch = Some(1)
    /\ RowOf(data_sources, Adapters[1]).average_fetch_time # None


\* events_fetched_count of a row, 0 when the row or the count is missing
CountOf(sources, name) ==
    IF RowOf(sources, name).events_fetched_count = None THEN 0
    ELSE RowOf(sources, name).events_fetched_count[1]

\* C19: when an adapter's fetch and batch succeed, its DataSource row exists
\* afterwards with last_fetch_attempt and last_successful_fetch set to the
\* time of the cycle, last_error null and events_fetched_count larger by
\* exactly the number of records the adapter returned; over any step the
\* count of no adapter decreases and no row disappears.
C19_SuccessRecorded ==
    [][/\ (pc = "process" /\ pc' \in {"fetch", "returned"}) =>
            LET name == Head(queue)
            IN /\ data_sources'[name] # None
               /\ RowOf(data_sources', name).last_fetch_attempt = Some(clock)
               /\ RowOf(data_sources', name).last_successful_fetch = Some(clock)
               /\ RowOf(data_sources', name).last_error = None
               /\ RowOf(data_sources', name).events_fetched_count
                     = Some(CountOf(data_sources, name) + batch.fetched)
               /\ \A other \in AdapterNames \ {name} : data_sources'[other] = data_sources[other]
       /\ \A name \in AdapterNames :
             /\ CountOf(data_sources', name) >= CountOf(data_sources, name)
             /\ data_sources[name] # None => data_sources'[name] # None]_vars

\* C19 witness: an adapter returned one record in each of two successful
\* cycles; its row counts two records and carries the second cycle's time
C19_Witness ==
    /\ clock = 2
    /\ pc = "returned"
    /\ results[Adapters[1]] # None
    /\ cycle.failed = {}
    /\ RowOf(data_sources, Adapters[1]).events_fetched_count = Some(2)
    /\ RowOf(data_sources, Adapters[1]).last_fetch_attempt = Some(2)
    /\ RowOf(data_sources, Adapters[1]).last_successful_fetch = Some(2)
    /\ RowOf(data_sources, Adapters[1]).last_error = None


\* ------------------------------------------------------------------
\* _update_source_tracking applied on its own, call after call, to the
\* row of one adapter, starting with no row
\* ------------------------------------------------------------------
MaxFetches == 3

\* fetch durations of the successful fetches, seconds; total_seconds() is 0
\* when both readings of the clock agree
TrackingDurations == {0, 2, 3}

\* the call made so far: none
NoCall == [fn |-> "update_source_tracking", calls |-> 0, success |-> FALSE, events_count |-> 0, fetch_duration |-> 0]

TrackingInit == PipelineInit /\ args = NoCall /\ ret = None

\* the call of the success branch of fetch_all_events
ApplyTrackSuccess(events_count, fetch_duration) ==
    /\ args.calls < MaxFetches
    /\ ret' = Some(update_source_tracking(ret, TRUE, events_count, fetch_duration, "", args.calls + 1))
    /\ args' = [fn |-> "update_source_tracking", calls |-> args.calls + 1, success |-> TRUE,
                events_count |-> events_count, fetch_duration |-> fetch_duration]
    /\ UNCHANGED pipeline

\* the call of the except branch: events_count and fetch_duration default to 0
ApplyTrackFailure ==
    /\ args.calls < MaxFetches
    /\ ret' = Some(update_source_tracking(ret, FALSE, 0, 0, "fetch failed", args.calls + 1))
    /\ args' = [fn |-> "update_source_tracking", calls |-> args.calls + 1, success |-> FALSE,
                events_count |-> 0, fetch_duration |-> 0]
    /\ UNCHANGED pipeline

TrackingNext ==
    \/ \E events_count \in 0..1, fetch_duration \in TrackingDurations : ApplyTrackSuccess(events_count, fetch_duration)
    \/ ApplyTrackFailure

SpecTracking == TrackingInit /\ [][TrackingNext]_vars

\* equality of two quotients <<num, den>>
QuotEQ(x, y) == x[1] * y[2] = y[1] * x[2]

\* C20: after a successful fetch with sample d the stored average is
\* (a + d) / 2 when an average a was stored before, 0 included, and d when
\* none was stored.
C20_TwoPointMean ==
    [][(args'.calls = args.calls + 1 /\ args'.success) =>
          LET before == IF ret = None THEN None ELSE ret[1].average_fetch_time
              after == ret'[1].average_fetch_time
              d == args'.fetch_duration
          IN /\ after # None
             /\ IF before = None THEN QuotEQ(after[1], <<d, 1>>)
                ELSE QuotEQ(after[1], <<before[1][1] + d * before[1][2], 2 * before[1][2]>>)]_vars

\* C20 witness: a stored average of 2 and a new sample of 3 give 5/2
C20_Witness ==
    /\ args.fn = "update_source_tracking"
    /\ args.calls = 2
    /\ args.success
    /\ args.fetch_duration = 3
    /\ ret # None
    /\ ret[1].average_fetch_time = Some(<<5, 2>>)


\* ------------------------------------------------------------------
\* Ingestion with the adapters' validation (fetch_events keeps a parsed
\* record only if validate_event accepts it)
\* ------------------------------------------------------------------

\* a record as the adapter parsed it: source_name may be null like the
\* other required fields
RawOf(event_data) == [event_data EXCEPT !.source_name = Some(@)]

\* validate_event that forgets source_id
validate_event_without_source_id(event) ==
    /\ event.title # None
    /\ event.start_date # None
    /\ event.source_name # None

\* validate_event: all four required fields are not None
validate_event(event) ==
    /\ event.title # None
    /\ event.start_date # None
    /\ event.source_name # None
    /\ event.source_id # None

\* the records adapter source_name may parse that lack a required field
InvalidRecordsOf(source_name) ==
    LET raw == RawOf(EventData(source_name, "e1", TitleOf(source_name), 5))
    IN {[raw EXCEPT !.title = None],
        [raw EXCEPT !.start_date = None],
        [raw EXCEPT !.source_name = None],
        [raw EXCEPT !.source_id = None]}

\* everything adapter source_name may parse
RawRecordsOf(source_name) == {RawOf(r) : r \in RecordsOf(source_name)} \cup InvalidRecordsOf(source_name)

\* the record handed to _process_events once validated
EventDataOf(raw) == [raw EXCEPT !.source_name = @[1]]

\* one parsed record of the adapter's loop: kept if validate_event accepts
\* it, and then processed by the loop of _process_events
KeepRecord(raw) ==
    /\ pc = "process"
    /\ validate_event(raw)
    /\ ProcessRecord(EventDataOf(raw))

\* one parsed record that validate_event rejects: it is not appended to the
\* list fetch_events returns
DropRecord(raw) ==
    /\ pc = "process"
    /\ supplied < MaxRecords
    /\ ~validate_event(raw)
    /\ supplied' = supplied + 1
    /\ UNCHANGED <<events, data_sources, history, session, pc, queue, cycle,
                   results, batch, clock, args, ret>>

ValidateNext ==
    \/ \E enabled \in SUBSET AdapterNames : StartCycle(enabled)
    \/ FetchRaises
    \/ \E d \in Durations : FetchReturns(d)
    \/ pc = "process" /\ \E raw \in RawRecordsOf(Head(queue)) : KeepRecord(raw)
    \/ pc = "process" /\ \E raw \in RawRecordsOf(Head(queue)) : DropRecord(raw)
    \/ CommitBatch
    \/ CommitFails

SpecValidate == Init /\ [][ValidateNext]_vars


\* C21: a parsed record that lacks a required field changes no Event, stored
\* or pending, and does not mark its adapter failed; every Event row, stored
\* or pending, has a title, a start date and a source id; and the commit of
\* a batch stores every row the valid records of the batch created or
\* updated and records the fetch as a success.
C21_InvalidDroppedAlone ==
    [][/\ (pc = "process" /\ supplied' = supplied + 1 /\ batch'.fetched = batch.fetched) =>
            /\ events' = events
            /\ session' = session
            /\ cycle'.failed = cycle.failed
            /\ data_sources' = data_sources
            /\ pc' = "process"
       /\ \A i \in DOMAIN AllRows(session') :
             /\ AllRows(session')[i].title # None
             /\ AllRows(session')[i].start_date # None
             /\ AllRows(session')[i].source_id # None
       /\ (pc = "process" /\ pc' \in {"fetch", "returned"}) =>
            /\ events' = AllRows(session)
            /\ Head(queue) \notin cycle'.failed
            /\ RowOf(data_sources', Head(queue)).last_error = None
            /\ RowOf(data_sources', Head(queue)).events_fetched_count
                  = Some(CountOf(data_sources, Head(queue)) + batch.fetched)]_vars

\* C21 witness: in the first cycle one adapter parsed two records, one of
\* them invalid; the valid one is a committed Event, the adapter's fetch is
\* recorded as a success with one record
C21_Witness ==
    /\ clock = 1
    /\ pc = "returned"
    /\ supplied = 2
    /\ cycle.sources = {Adapters[1]}
    /\ cycle.failed = {}
    /\ Len(events) = 1
    /\ results[Adapters[1]] = Some(1)
    /\ RowOf(data_sources, Adapters[1]).events_fetched_count = Some(1)
    /\ RowOf(data_sources, Adapters[1]).last_error = None


\* the (source_name, source_id) pairs that have a row in an events table
ProvenancesOf(table) == {<<table[i].source_name, table[i].source_id>> : i \in DOMAIN table}

\* C22: over every step of every sequence of cycles the committed events
\* table loses no row: it never gets shorter, every row keeps its provenance,
\* so the set of (source_name, source_id) pairs with an Event only grows,
\* whether or not an adapter supplies the event again or fails.
C22_EventsNeverDeleted ==
    [][/\ Len(events') >= Len(events)
       /\ \A i \in DOMAIN events :
             /\ events'[i].source_name = events[i].source_name
             /\ events'[i].source_id = events[i].source_id
       /\ ProvenancesOf(events) \subseteq ProvenancesOf(events')]_vars

\* C22 witness: the first adapter's Event of the first cycle is still stored
\* after a second cycle in which that adapter failed
C22_Witness ==
    /\ clock = 2
    /\ pc = "returned"
    /\ Adapters[1] \in cycle.failed
    /\ <<Adapters[1], Some("e1")>> \in ProvenancesOf(events)


\* C23: the history rows an Event update appends record its transition:
\* every row has the status stored before the update as previous status, the
\* status the update stores as new status, and the two differ; an update
\* that changes the status leaves such a row.
C23_TransitionRecorded ==
    (ret # None /\ args.fn = "update_event") =>
        /\ \A i \in DOMAIN ret[1].history :
              /\ ret[1].history[i].previous_status = args.event.status
              /\ ret[1].history[i].new_status = ret[1].event.status
              /\ ret[1].history[i].previous_status # ret[1].history[i].new_status
        /\ ret[1].event.status # args.event.status =>
              \E i \in DOMAIN ret[1].history :
                  /\ ret[1].history[i].previous_status = args.event.status
                  /\ ret[1].history[i].new_status = ret[1].event.status


\* ------------------------------------------------------------------
\* SelloutMonitor.generate_and_save_alert
\* ------------------------------------------------------------------

\* [e for e in events if e.status == EventStatus.SELLING_FAST]
RECURSIVE SellingFastOf(_)
SellingFastOf(event_list) ==
    IF event_list = <<>> THEN <<>>
    ELSE IF Head(event_list).status = SELLING_FAST
         THEN <<Head(event_list)>> \o SellingFastOf(Tail(event_list))
         ELSE SellingFastOf(Tail(event_list))

\* ContentGenerator.generate_selling_fast_alert: the empty string when no
\* event handed over is SELLING_FAST, else a heading, a card for each of the
\* first eight such events, and a footer
generate_selling_fast_alert(event_list) ==
    LET selling_fast == SellingFastOf(event_list)
    IN IF selling_fast = <<>> THEN <<>>
       ELSE <<"h1", "p">> \o [i \in 1..(IF Len(selling_fast) < 8 THEN Len(selling_fast) ELSE 8) |-> selling_fast[i].id] \o <<"hr">>

\* the part of generate_and_save_alert after check_for_alerts, with the
\* sold-out events put first in the list handed to the renderer
save_alert_sold_out_first(result, min_selling_fast, min_sold_out) ==
    IF ~should_generate_alert(result, min_selling_fast, min_sold_out)
    THEN [result |-> result, rendered |-> None, written |-> None]
    ELSE LET all_alert_events == result.newly_sold_out \o result.newly_selling_fast
             html == generate_selling_fast_alert(all_alert_events)
         IN [result |-> result,
             rendered |-> Some(all_alert_events),
             written |-> IF html = <<>> THEN None ELSE Some(html)]

\* the part of generate_and_save_alert after check_for_alerts: rendered is
\* the list handed to the renderer (None when it is not called), written the
\* content of the alert file (None when no file is written)
save_alert(result, min_selling_fast, min_sold_out) ==
    IF ~should_generate_alert(result, min_selling_fast, min_sold_out)
    THEN [result |-> result, rendered |-> None, written |-> None]
    ELSE LET all_alert_events == result.newly_selling_fast \o result.newly_sold_out
             html == generate_selling_fast_alert(all_alert_events)
         IN [result |-> result,
             rendered |-> Some(all_alert_events),
             written |-> IF html = <<>> THEN None ELSE Some(html)]

\* generate_and_save_alert: its possible outcomes, one per result
\* check_for_alerts can return for the 25 hours before now
generate_and_save_alert(history_rows, event_rows, now, min_selling_fast, min_sold_out) ==
    {save_alert(result, min_selling_fast, min_sold_out) :
        result \in check_for_alerts(history_rows, event_rows, now - 25, now)}

\* the Event table with the statuses the future events currently have
EmitEvents(status_a, status_b) ==
    {[id |-> 1, start_date |-> 40, availability_percentage |-> Some(5), status |-> status_a],
     [id |-> 2, start_date |-> MonitorNow, availability_percentage |-> None, status |-> status_b],
     [id |-> 3, start_date |-> MonitorNow - 1, availability_percentage |-> Some(8), status |-> SELLING_FAST],
     [id |-> 4, start_date |-> 40, availability_percentage |-> Some(5), status |-> status_a]}

\* history rows inside the window, to SELLING_FAST or SOLD_OUT
EmitHistoryRows ==
    [event_id : 1..4, new_status : {SELLING_FAST, SOLD_OUT}, recorded_at : {MonitorSince, 20}]

\* the history tables of at most n such rows
RECURSIVE EmitHistoryTables(_)
EmitHistoryTables(n) ==
    IF n = 0 THEN {{}}
    ELSE LET smaller == EmitHistoryTables(n - 1)
         IN smaller \cup {h \cup {r} : h \in smaller, r \in EmitHistoryRows}

\* the arguments and settings generate_and_save_alert runs with
EmitArgs ==
    [fn : {"generate_and_save_alert"},
     history : EmitHistoryTables(MaxHistoryRows),
     events : {EmitEvents(a, b) : a, b \in {SELLING_FAST, SOLD_OUT}},
     now : {MonitorNow},
     sellout_alert_min_selling_fast : {1, 2},
     sellout_alert_min_sold_out : {1, 3}]

EmitInit == PipelineInit /\ args \in EmitArgs /\ ret = None

ApplyGenerateAndSaveAlert ==
    /\ ret = None
    /\ \E outcome \in generate_and_save_alert(args.history, args.events, args.now,
                                              args.sellout_alert_min_selling_fast,
                                              args.sellout_alert_min_sold_out) :
          ret' = Some(outcome)
    /\ UNCHANGED <<pipeline, args>>

EmitNext == ApplyGenerateAndSaveAlert

SpecEmit == EmitInit /\ [][EmitNext]_vars

\* C24: generate_and_save_alert writes an alert document exactly when the
\* thresholds are met for the result of the 25-hour lookback and the renderer
\* returns non-empty output; the renderer is called exactly when the
\* thresholds are met, with the newly-selling-fast events followed by the
\* newly-sold-out events; the result is one check_for_alerts gives for the
\* window starting 25 hours before now; the run changes no table.
C24_AlertEmission ==
    [][(args.fn = "generate_and_save_alert" /\ ret = None /\ ret' # None) =>
          LET out == ret'[1]
              met == \/ Len(out.result.newly_selling_fast) >= args.sellout_alert_min_selling_fast
                     \/ Len(out.result.newly_sold_out) >= args.sellout_alert_min_sold_out
          IN /\ out.result \in check_for_alerts(args.history, args.events, args.now - 25, args.now)
             /\ (out.rendered # None) = met
             /\ met => out.rendered[1] = out.result.newly_selling_fast \o out.result.newly_sold_out
             /\ (out.written # None) = (met /\ generate_selling_fast_alert(out.rendered[1]) # <<>>)
             /\ ~met => (out.rendered = None /\ out.written = None)
             /\ events' = events /\ history' = history /\ args' = args]_vars

\* C24 witness: one newly-selling-fast and one newly-sold-out event, both
\* handed to the renderer in that order, and the alert is written
C24_Witness ==
    /\ ret # None
    /\ args.fn = "generate_and_save_alert"
    /\ Len(ret[1].result.newly_selling_fast) = 1
    /\ Len(ret[1].result.newly_sold_out) = 1
    /\ ret[1].rendered = Some(ret[1].result.newly_selling_fast \o ret[1].result.newly_sold_out)
    /\ ret[1].written # None


\* C25: a record is skipped as a duplicate only when the stored Event it
\* matched comes from a different adapter: whenever the loop of
\* _process_events handles a record whose provenance has no row and no row
\* of another adapter exists, it creates an Event for the record; so two
\* records of one adapter with different source ids, the same start and the
\* same title each get their own Event.
C25_CrossProviderOnly ==
    [][(pc = "process" /\ batch'.fetched = batch.fetched + 1) =>
          LET event_data == batch'.last[1]
              rows == AllRows(session)
          IN ((\A i \in DOMAIN rows :
                  /\ rows[i].source_name = Head(queue)
                  /\ rows[i].source_id # event_data.source_id)
              => batch'.outcome = "created")]_vars

\* C25 witness: the second adapter's record is skipped against the Event the
\* first adapter's record created, the only row there is
C25_Witness ==
    /\ pc = "process"
    /\ Head(queue) = Adapters[2]
    /\ batch.outcome = "skipped"
    /\ batch.fetched = 1
    /\ Len(AllRows(session)) = 1
    /\ AllRows(session)[1].source_name = Adapters[1]


\* the adapters of the running cycle whose turn is over
DoneAdapters == cycle.sources \ {queue[i] : i \in DOMAIN queue}

\* C26: within a cycle the adapters take their turns one after the other:
\* while an adapter is being fetched or processed, every adapter before it
\* has its result set and its DataSource row written for this cycle, and
\* when a fetch is about to be invoked the session holds nothing that is not
\* committed; the step in which an adapter fails leaves the committed events
\* of the earlier adapters as they are.
C26_SequentialCommitPerBatch ==
    [][/\ pc' \in {"fetch", "process"} =>
            \A name \in DoneAdapters' :
                /\ results'[name] # None
                /\ data_sources'[name] # None
                /\ RowOf(data_sources', name).last_fetch_attempt = Some(clock')
       /\ pc' = "fetch" => (session'.new = <<>> /\ session'.work = events')
       /\ cycle'.failed # cycle.failed /\ cycle'.failed # {} => events' = events]_vars

\* C26 witness: in one cycle the first adapter committed an Event and the
\* second adapter then failed; the Event is still committed
C26_Witness ==
    /\ clock = 1
    /\ pc \in {"returned", "aborted"}
    /\ cycle.sources = {Adapters[1], Adapters[2]}
    /\ cycle.failed = {Adapters[2]}
    /\ results[Adapters[1]] = Some(1)
    /\ Len(events) = 1
    /\ events[1].source_name = Adapters[1]


\* C27: the stored availability_percentage of a created Event, and of an
\* Event after an update that carries tickets_available, is
\* available / total * 100 of its stored tickets_available and total_tickets
\* when both are non-null and non-zero, and null (not 0) when either is null
\* or zero.
C27_DerivedPercentage ==
    (ret # None /\ args.fn = "update_event") =>
        \A e \in {args.event} \cup (IF args.event_data.tickets_available # None THEN {ret[1].event} ELSE {}) :
            IF \/ e.tickets_available = None \/ e.tickets_available = Some(0)
               \/ e.total_tickets = None \/ e.total_tickets = Some(0)
            THEN e.availability_percentage = None
            ELSE /\ e.availability_percentage # None
                 /\ e.availability_percentage[1][1] * e.total_tickets[1]
                       = e.tickets_available[1] * 100 * e.availability_percentage[1][2]

\* C27 witness: an Event with 60 of 100 tickets (60 percent) is updated from
\* a record with no ticket left and becomes a SOLD_OUT Event with 0 tickets
\* and a null percentage
C27_Witness ==
    /\ ret # None
    /\ args.fn = "update_event"
    /\ args.event.availability_percentage = Some(<<6000, 100>>)
    /\ args.event_data.tickets_available = Some(0)
    /\ ret[1].event.tickets_available = Some(0)
    /\ ret[1].event.total_tickets = Some(100)
    /\ ret[1].event.status = SOLD_OUT
    /\ ret[1].event.availability_percentage = None


\* C28: when an Event still to come, with a stored ticket count p and a
\* stored check time, is updated from a record with c tickets, 0 < c < p,
\* such that at the rate since the last check the tickets last at most 7
\* days, with no sold-out or cancellation signal and neither the percentage
\* nor the absolute threshold met, the stored status afterwards is
\* SELLING_FAST.
C28_VelocityOnReingestion ==
    (/\ ret # None
     /\ args.fn = "update_event"
     /\ args.event.tickets_available # None
     /\ args.event_data.tickets_available # None
     /\ args.event.last_availability_check # None
     /\ args.event_data.start_date[1] > args.now
     /\ LET p == args.event.tickets_available[1]
            c == args.event_data.tickets_available[1]
            days == args.now - args.event.last_availability_check[1]
            total == ret[1].event.total_tickets
        IN /\ 0 < c /\ c < p /\ days > 0
           /\ c * days <= 7 * (p - c)
           /\ c > low_availability_threshold
           /\ (~TruthyNum(total) \/ c * 100 > sellout_threshold * total[1])
     /\ ~is_sold_out(args.event_data.tickets_available, args.event_data.on_sale_status)
     /\ ~is_cancelled(args.event_data.on_sale_status)) =>
        ret[1].event.status = SELLING_FAST

\* C28 witness: an Event with 100 tickets on day 1 and starting on day 5 is
\* updated on day 3 from a record with 60 tickets, on sale: 20 tickets a day
\* leave 3 days of tickets, and the stored status is ON_SALE
C28_Witness ==
    /\ ret # None
    /\ args.fn = "update_event"
    /\ args.now = 3
    /\ args.event.tickets_available = Some(100)
    /\ args.event.last_availability_check = Some(1)
    /\ args.event.total_tickets = None
    /\ args.event_data.tickets_available = Some(60)
    /\ args.event_data.on_sale_status = Some("onsale")
    /\ ret[1].event.status = ON_SALE


\* C29: after every create and every update the stored status of the Event
\* is determine_status of its own stored tickets_available, total_tickets and
\* on_sale_status.
C29_StatusMatchesStoredSignals ==
    (ret # None /\ args.fn = "update_event") =>
        \A e \in {args.event, ret[1].event} :
            e.status = determine_status(e.tickets_available, e.total_tickets,
                                        e.on_sale_status, None, None, None, args.now)

\* C29 witness: an ON_SALE Event is updated from a record that carries both
\* a ticket count and a sale-status, and is SELLING_FAST in agreement with
\* what it stores
C29_Witness ==
    /\ ret # None
    /\ args.fn = "update_event"
    /\ args.event.status = ON_SALE
    /\ args.event_data.tickets_available = Some(60)
    /\ args.event_data.on_sale_status = Some("onsale")
    /\ ret[1].event.tickets_available = Some(60)
    /\ ret[1].event.total_tickets = Some(1000)
    /\ ret[1].event.on_sale_status = Some("onsale")
    /\ ret[1].event.status = SELLING_FAST


\* ------------------------------------------------------------------
\* Two overlapping cycles of one adapter, each with its own session on
\* the same database.  A query sees the committed rows; a session's pending
\* rows reach the table when it commits.  In this specification session,
\* pc, queue and batch hold one value per cycle.
\* ------------------------------------------------------------------
Cycles == {1, 2}

\* the adapter both cycles run, and the records it may return to each
OverlapSource == Adapters[1]

\* a session that has loaded and added nothing
NoSession == [work |-> <<>>, new |-> <<>>, history |-> <<>>]

OverlapInit ==
    /\ events = <<>>
    /\ data_sources = [n \in AdapterNames |-> None]
    /\ history = <<>>
    /\ session = [c \in Cycles |-> NoSession]
    /\ pc = [c \in Cycles |-> "lookup"]
    /\ queue \in [Cycles -> RecordsOf(OverlapSource)]
    /\ cycle = [sources |-> {OverlapSource}, failed |-> {}]
    /\ results = [n \in AdapterNames |-> None]
    /\ batch = [c \in Cycles |-> [existing |-> 0, duplicate |-> 0, outcome |-> "none"]]
    /\ clock = 1
    /\ supplied = 0
    /\ args = <<>>
    /\ ret = None

\* the two queries of one iteration of _process_events, on the committed
\* table: the row of the record's provenance, and its cross-listing
OverlapLookup(c) ==
    /\ pc[c] = "lookup"
    /\ batch' = [batch EXCEPT ![c] =
                    [existing |-> find_by_source(events, OverlapSource, queue[c].source_id),
                     duplicate |-> find_duplicate(events, queue[c]),
                     outcome |-> "none"]]
    /\ pc' = [pc EXCEPT ![c] = "insert"]
    /\ UNCHANGED <<events, data_sources, history, session, queue, cycle, results,
                   clock, supplied, args, ret>>

\* the rest of the iteration: update the row found, skip the record, or add
\* a new Event to the session
OverlapInsert(c) ==
    /\ pc[c] = "insert"
    /\ IF batch[c].existing # 0
       THEN /\ session' = [session EXCEPT ![c].work =
                              <<[id |-> batch[c].existing,
                                 row |-> update_event(events[batch[c].existing], queue[c], clock)]>>]
            /\ batch' = [batch EXCEPT ![c].outcome = "updated"]
       ELSE IF batch[c].duplicate # 0
       THEN /\ session' = session
            /\ batch' = [batch EXCEPT ![c].outcome = "skipped"]
       ELSE /\ session' = [session EXCEPT ![c].new = <<create_event(queue[c], clock)>>]
            /\ batch' = [batch EXCEPT ![c].outcome = "created"]
    /\ pc' = [pc EXCEPT ![c] = "commit"]
    /\ UNCHANGED <<events, data_sources, history, queue, cycle, results, clock,
                   supplied, args, ret>>

\* the events table once the session of cycle c has written its rows
Committed(table, sess) ==
    (IF sess.work = <<>> THEN table
     ELSE [table EXCEPT ![sess.work[1].id] = sess.work[1].row]) \o sess.new

\* db.commit() of _process_events: the updated row is written, the added
\* row is inserted; no unique constraint on (source_name, source_id) exists
\* that could reject it
OverlapCommit(c) ==
    /\ pc[c] = "commit"
    /\ events' = Committed(events, session[c])
    /\ session' = [session EXCEPT ![c] = NoSession]
    /\ pc' = [pc EXCEPT ![c] = "done"]
    /\ UNCHANGED <<data_sources, history, queue, cycle, results, batch, clock,
                   supplied, args, ret>>

OverlapNext == \E c \in Cycles : OverlapLookup(c) \/ OverlapInsert(c) \/ OverlapCommit(c)

SpecOverlap == OverlapInit /\ [][OverlapNext]_vars

\* C30: when two overlapping cycles have both processed a record of the
\* same, previously unseen provenance and both have committed, at most one
\* Event row has that provenance.
C30_UniqueUnderOverlap ==
    (\A c \in Cycles : pc[c] = "done") =>
        \A i, j \in DOMAIN events :
            (/\ events[i].source_name = events[j].source_name
             /\ events[i].source_id = events[j].source_id) => i = j

\* C30 witness: the two cycles processed records of the same provenance, one
\* created the Event and the other, looking it up after the commit, updated
\* it; one row exists
C30_Witness ==
    /\ \A c \in Cycles : pc[c] = "done"
    /\ queue[1].source_id = queue[2].source_id
    /\ batch[1].outcome = "created"
    /\ batch[2].outcome = "updated"
    /\ Len(events) = 1

====
